---- MODULE Spec2Model ----
(***************************************************************************)
(* FlowGraph CLI: `flowgraph verify` checks a maintenance-contract         *)
(* document (nodes, edges, flows, invariants) against the source tree and  *)
(* accumulates PASS / FAIL / WARN records; the process exit status is      *)
(* decided from those records.                                             *)
(*                                                                         *)
(* Text coming from the document or from source files is modelled as a     *)
(* sequence of one-character strings, so that String.replace, split,       *)
(* includes and the regular expressions of the verifiers are computed and  *)
(* not assumed.  Literals of the program itself (statuses, categories,     *)
(* message templates) are ordinary strings.                                *)
(***************************************************************************)
EXTENDS Integers, Sequences, FiniteSets, TLC

----------------------------------------------------------------------------
(* Characters and JavaScript string primitives *)

UpperChars == <<"A", "B", "C", "D", "E", "F", "G", "H", "I", "J", "K", "L", "M", "N", "O", "P", "Q", "R", "S", "T", "U", "V", "W", "X", "Y", "Z">>
LowerChars == <<"a", "b", "c", "d", "e", "f", "g", "h", "i", "j", "k", "l", "m", "n", "o", "p", "q", "r", "s", "t", "u", "v", "w", "x", "y", "z">>
DigitChars == <<"0", "1", "2", "3", "4", "5", "6", "7", "8", "9">>

Range(f) == {f[k] : k \in DOMAIN f}

\* character class \d
IsDigit(c) == c \in Range(DigitChars)

\* character class \w
IsWordChar(c) == c \in Range(UpperChars) \cup Range(LowerChars) \cup Range(DigitChars) \cup {"_"}

\* character class \s
SpaceChars == {" ", "\n", "\t", "\r"}

\* the backspace character, which is what \b means inside a character class
BackspaceChar == "<BS>"

\* case folding used by the "i" flag
LowerOf(c) ==
  IF \E k \in DOMAIN UpperChars : UpperChars[k] = c
  THEN LowerChars[CHOOSE k \in DOMAIN UpperChars : UpperChars[k] = c]
  ELSE c

\* String.prototype.toLowerCase
ToLowerCase(s) == [k \in DOMAIN s |-> LowerOf(s[k])]

\* does sub occur in s starting at (1-based) position i
OccursAt(s, sub, i) ==
  /\ i >= 1
  /\ i + Len(sub) - 1 <= Len(s)
  /\ \A k \in 1..Len(sub) : s[i + k - 1] = sub[k]

\* String.prototype.indexOf, 1-based; 0 when absent
IndexOf(s, sub) ==
  IF \E i \in 1..(Len(s) + 1) : OccursAt(s, sub, i)
  THEN CHOOSE i \in 1..(Len(s) + 1) :
         /\ OccursAt(s, sub, i)
         /\ \A j \in 1..(i - 1) : ~OccursAt(s, sub, j)
  ELSE 0

\* String.prototype.includes
Includes(s, sub) == IndexOf(s, sub) # 0

\* String.prototype.replace with a string pattern: the first occurrence only
Replace(s, pat, rep) ==
  LET i == IndexOf(s, pat)
  IN IF i = 0 THEN s
     ELSE SubSeq(s, 1, i - 1) \o rep \o SubSeq(s, i + Len(pat), Len(s))

\* String.prototype.split with a one-character separator
RECURSIVE SplitFrom(_, _, _, _)
SplitFrom(s, sep, i, cur) ==
  IF i > Len(s) THEN <<cur>>
  ELSE IF s[i] = sep THEN <<cur>> \o SplitFrom(s, sep, i + 1, <<>>)
  ELSE SplitFrom(s, sep, i + 1, Append(cur, s[i]))

Split(s, sep) == SplitFrom(s, sep, 1, <<>>)

\* Array.prototype.join
RECURSIVE Join(_, _)
Join(parts, sep) ==
  IF Len(parts) = 0 THEN <<>>
  ELSE IF Len(parts) = 1 THEN parts[1]
  ELSE parts[1] \o sep \o Join(Tail(parts), sep)

\* Array.prototype.pop: the last element
Last(xs) == xs[Len(xs)]

\* the array left after pop
ButLast(xs) == SubSeq(xs, 1, Len(xs) - 1)

\* parseInt(digits, 10) for a string of decimal digits
RECURSIVE ParseInt(_)
ParseInt(ds) ==
  IF Len(ds) = 0 THEN 0
  ELSE 10 * ParseInt(ButLast(ds))
       + ((CHOOSE k \in DOMAIN DigitChars : DigitChars[k] = Last(ds)) - 1)

\* a number inside a template literal
RECURSIVE NumToStr(_)
NumToStr(n) ==
  IF n < 10 THEN <<DigitChars[n + 1]>>
  ELSE Append(NumToStr(n \div 10), DigitChars[(n % 10) + 1])

----------------------------------------------------------------------------
(* Regular expressions.  A pattern is a tree; Match gives the set of       *)
(* positions at which a match starting at position i can end, which is     *)
(* what a backtracking matcher explores.                                   *)

Lit(s) == [t |-> "lit", s |-> s, cs |-> {}, xs |-> <<>>]
Cls(S) == [t |-> "cls", s |-> <<>>, cs |-> S, xs |-> <<>>]
AnyChar == [t |-> "any", s |-> <<>>, cs |-> {}, xs |-> <<>>]
WordBoundary == [t |-> "wb", s |-> <<>>, cs |-> {}, xs |-> <<>>]
Cat(xs) == [t |-> "cat", s |-> <<>>, cs |-> {}, xs |-> xs]
Alt(xs) == [t |-> "alt", s |-> <<>>, cs |-> {}, xs |-> xs]
Star(x) == [t |-> "star", s |-> <<>>, cs |-> {}, xs |-> <<x>>]
Plus(x) == Cat(<<x, Star(x)>>)
Opt(x) == Alt(<<x, Lit(<<>>)>>)
Spaces == Star(Cls(SpaceChars))
Spaces1 == Plus(Cls(SpaceChars))
\* the backquote character (the lexer of this language cannot hold it in a string)
Backquote == "<BQ>"

Quote == Cls({"'", "\"", Backquote})

CharEq(a, b, ci) == IF ci THEN LowerOf(a) = LowerOf(b) ELSE a = b

LitAt(s, sub, i, ci) ==
  /\ i + Len(sub) - 1 <= Len(s)
  /\ \A k \in 1..Len(sub) : CharEq(s[i + k - 1], sub[k], ci)

IsBoundary(s, i) ==
  LET before == i > 1 /\ i - 1 <= Len(s) /\ IsWordChar(s[i - 1])
      after == i <= Len(s) /\ IsWordChar(s[i])
  IN before # after

RECURSIVE Match(_, _, _, _)
RECURSIVE MatchSeq(_, _, _, _)
RECURSIVE StarClose(_, _, _, _, _)

Match(re, s, i, ci) ==
  CASE re.t = "lit" -> IF LitAt(s, re.s, i, ci) THEN {i + Len(re.s)} ELSE {}
    [] re.t = "cls" -> IF i <= Len(s) /\ s[i] \in re.cs THEN {i + 1} ELSE {}
    [] re.t = "any" -> IF i <= Len(s) /\ s[i] \notin {"\n", "\r"} THEN {i + 1} ELSE {}
    [] re.t = "wb" -> IF IsBoundary(s, i) THEN {i} ELSE {}
    [] re.t = "cat" -> MatchSeq(re.xs, s, {i}, ci)
    [] re.t = "alt" -> UNION {Match(re.xs[k], s, i, ci) : k \in DOMAIN re.xs}
    [] re.t = "star" -> StarClose(re.xs[1], s, {i}, {i}, ci)

MatchSeq(xs, s, from, ci) ==
  IF Len(xs) = 0 \/ from = {} THEN from
  ELSE MatchSeq(Tail(xs), s, UNION {Match(xs[1], s, j, ci) : j \in from}, ci)

StarClose(x, s, front, acc, ci) ==
  LET new == (UNION {Match(x, s, j, ci) : j \in front}) \ acc
  IN IF new = {} THEN acc ELSE StarClose(x, s, new, acc \cup new, ci)

\* RegExp.prototype.test: an unanchored search
Test(re, s, ci) == \E i \in 1..(Len(s) + 1) : Match(re, s, i, ci) # {}

----------------------------------------------------------------------------
(* Optional values: a field that is absent (undefined, null) is the empty  *)
(* sequence, one that is present is a one-element sequence.                *)

None == <<>>
Some(x) == <<x>>
IsSome(o) == Len(o) = 1
Get(o) == o[1]

\* a string is truthy iff it is not empty; an absent value is falsy
Truthy(o) == IsSome(o) /\ Get(o) # <<>>

----------------------------------------------------------------------------
(* The loaded document and the source tree *)

VARIABLES
  flowgraph,     \* the parsed document: meta, nodes, edges, flows, invariants
  files,         \* the source tree: path -> content (a path outside it is no file)
  results,       \* the module-level result list
  pc,            \* where the run is: "cli", the phase, "aggregate", "exited", "crashed"
  idx,           \* index of the next item of the current phase
  exitStatus,    \* the process exit status, -1 while running
  verifyArgs,    \* the command line after `verify`
  report,        \* what an impact query has printed, section by section
  cwd,           \* the names readdirSync gives for the working directory
  flowgraphPath, \* the document path the command line resolved to, if any yet
  stderr,        \* the lines written by console.error
  previous,      \* the source tree and the result list of an earlier run, if any
  runs           \* how many times the command is run on the document

vars ==
  <<flowgraph, files, results, pc, idx, exitStatus, verifyArgs, report,
    cwd, flowgraphPath, stderr, previous, runs>>

\* record(status, category, id, message): the record pushed on the results
\* list; a message is its template and the values interpolated into it
Record(status, category, id, tpl, args) ==
  [status |-> status, id |-> id, category |-> category,
   message |-> [tpl |-> tpl, args |-> args]]

\* nodes[id] on the node table (an object: keys in insertion order), for an
\* id of the document; these are namespaced (kind:identifier)
HasNode(nodes, id) == \E k \in DOMAIN nodes : nodes[k].id = id

NodeAt(nodes, id) == nodes[CHOOSE k \in DOMAIN nodes : nodes[k].id = id].node

\* path.resolve(projectRoot, root, pathPart), relative to the project root
ResolvePath(root, pathPart) ==
  IF Len(pathPart) > 0 /\ pathPart[1] = "/" THEN pathPart
  ELSE IF Len(root) = 0 THEN pathPart
  ELSE IF Last(root) = "/" THEN root \o pathPart
  ELSE root \o <<"/">> \o pathPart

\* a variant of resolveLoc that takes the whole string for the path
resolveLoc_wholePath(loc, root) == [filePath |-> ResolvePath(root, loc), line |-> None]

\* resolveLoc: a purely numeric last colon-segment is the line
resolveLoc(loc, root) ==
  LET parts == Split(loc, ":")
      hasLine == /\ Len(parts) > 1
                 /\ Len(Last(parts)) > 0
                 /\ \A k \in DOMAIN Last(parts) : IsDigit(Last(parts)[k])
      linePart == IF hasLine THEN Some(Last(parts)) ELSE None
      rest == IF hasLine THEN ButLast(parts) ELSE parts
  IN [filePath |-> ResolvePath(root, Join(rest, <<":">>)),
      line |-> IF Truthy(linePart) THEN Some(ParseInt(Get(linePart))) ELSE None]

\* readSource: the content, or null when the file cannot be read
readSource(filePath) ==
  IF filePath \in DOMAIN files THEN files[filePath] ELSE None

\* `!source`: null and the empty string are both falsy
NoSource(source) == ~Truthy(source)

\* `if (line)`: an absent line and line 0 are both falsy
HasLine(line) == IsSome(line) /\ Get(line) # 0

Max(a, b) == IF a >= b THEN a ELSE b
Min(a, b) == IF a <= b THEN a ELSE b

\* Array.prototype.slice(start, end) on 0-based indices, end exclusive
Slice(xs, start, end) ==
  IF start >= end THEN <<>> ELSE SubSeq(xs, start + 1, end)

\* getRegion(source, lineNum, radius)
getRegion(source, lineNum, radius) ==
  LET lines == Split(source, "\n")
      start == Max(0, lineNum - 1 - radius)
      end == Min(Len(lines), lineNum - 1 + radius)
  IN Join(Slice(lines, start, end), <<"\n">>)

\* has(source, pattern) for a string pattern
hasStr(source, pattern) == Includes(source, pattern)

\* has(source, pattern) for a regular expression without flags
has(source, pattern) == Test(pattern, source, FALSE)

\* has(source, pattern) for a regular expression with the "i" flag
hasI(source, pattern) == Test(pattern, source, TRUE)

\* patterns.some((p) => has(text, p))
someHas(text, patterns) == \E k \in DOMAIN patterns : has(text, patterns[k])

----------------------------------------------------------------------------
(* Node verification.  Each verifier gives the records it pushes, in       *)
(* order.  It is called with a node that has a loc (see StructuralStep).    *)

\* the default of the parameter `radius` of getRegion
DefaultRadius == 15

\* window radius passed to getRegion by verifyTypeNode and verifyMethodNode
TypeMethodRadius == 5

\* window radius passed to getRegion by verifyEndpointNode
EndpointRadius == 10

typePatterns(typeName) ==
  << Cat(<<Alt(<<Lit(<<"i", "n", "t", "e", "r", "f", "a", "c", "e">>), Lit(<<"t", "y", "p", "e">>), Lit(<<"e", "n", "u", "m">>), Lit(<<"c", "l", "a", "s", "s">>), Lit(<<"s", "t", "r", "u", "c", "t">>)>>),
           Spaces1, Lit(typeName), WordBoundary>>),
     Cat(<<Alt(<<Lit(<<"c", "o", "n", "s", "t">>), Lit(<<"e", "x", "p", "o", "r", "t", " ", "c", "o", "n", "s", "t">>), Lit(<<"l", "e", "t">>), Lit(<<"v", "a", "r">>)>>),
           Spaces1, Lit(typeName), Lit(<<"S", "c", "h", "e", "m", "a">>), Spaces, Lit(<<"=">>)>>),
     Cat(<<Alt(<<Lit(<<"c", "o", "n", "s", "t">>), Lit(<<"e", "x", "p", "o", "r", "t", " ", "c", "o", "n", "s", "t">>), Lit(<<"l", "e", "t">>), Lit(<<"v", "a", "r">>)>>),
           Spaces1, Lit(typeName), Spaces, Lit(<<"=">>)>>),
     Cat(<<Alt(<<Lit(<<"d", "e", "f">>), Lit(<<"c", "l", "a", "s", "s">>)>>),
           Spaces1, Lit(typeName), Cls({":", "(", BackspaceChar})>>) >>

\* a variant of valueRecords that stops at the first missing value
valueRecords_firstOnly(id, source, values) ==
  IF \E k \in DOMAIN values : ~hasStr(source, values[k])
  THEN LET k == CHOOSE k \in DOMAIN values :
                  ~hasStr(source, values[k]) /\ \A j \in 1..(k - 1) : hasStr(source, values[j])
       IN <<Record("FAIL", "structural", id, "Enum value '${val}' not found", <<values[k]>>)>>
  ELSE <<>>

\* the FAIL records of the values loop of verifyTypeNode
RECURSIVE valueRecords(_, _, _)
valueRecords(id, source, values) ==
  IF Len(values) = 0 THEN <<>>
  ELSE (IF ~hasStr(source, values[1])
        THEN <<Record("FAIL", "structural", id, "Enum value '${val}' not found", <<values[1]>>)>>
        ELSE <<>>)
       \o valueRecords(id, source, Tail(values))

verifyTypeNode(id, node, root) ==
  LET r == resolveLoc(Get(node.loc), root)
      source == readSource(r.filePath)
      typeName == Replace(id, <<"t", "y", "p", "e", ":">>, <<>>)
      patterns == typePatterns(typeName)
  IN IF NoSource(source)
     THEN <<Record("FAIL", "structural", id, "File not found: ${node.loc}", <<Get(node.loc)>>)>>
     ELSE IF ~someHas(Get(source), patterns)
     THEN <<Record("FAIL", "structural", id, "Type '${typeName}' not found in ${node.loc}",
                   <<typeName, Get(node.loc)>>)>>
     ELSE (IF HasLine(r.line)
           THEN IF someHas(getRegion(Get(source), Get(r.line), TypeMethodRadius), patterns)
                THEN <<Record("PASS", "structural", id, "Found at ${node.loc}", <<Get(node.loc)>>)>>
                ELSE <<Record("WARN", "structural", id, "Found in file but not near line ${line}",
                              <<NumToStr(Get(r.line))>>)>>
           ELSE <<Record("PASS", "structural", id, "Found in ${node.loc}", <<Get(node.loc)>>)>>)
          \o (IF Truthy(node.schema) /\ ~hasStr(Get(source), Get(node.schema))
              THEN <<Record("FAIL", "structural", id, "Schema '${node.schema}' not found",
                            <<Get(node.schema)>>)>>
              ELSE <<>>)
          \o (IF IsSome(node.values)
              THEN valueRecords(id, Get(source), Get(node.values))
              ELSE <<>>)

methodPatterns(methodName) ==
  << Cat(<<Opt(Cat(<<Lit(<<"a", "s", "y", "n", "c">>), Spaces1>>)), Lit(methodName), Spaces, Lit(<<"(">>)>>),
     Cat(<<Alt(<<Lit(<<"p", "r", "i", "v", "a", "t", "e">>), Lit(<<"p", "u", "b", "l", "i", "c">>), Lit(<<"p", "r", "o", "t", "e", "c", "t", "e", "d">>)>>), Spaces1,
           Opt(Cat(<<Lit(<<"a", "s", "y", "n", "c">>), Spaces1>>)), Lit(methodName), Spaces, Lit(<<"(">>)>>),
     Cat(<<Lit(<<"d", "e", "f">>), Spaces1, Lit(methodName), Spaces, Lit(<<"(">>)>>),
     Cat(<<Lit(<<"f", "u", "n", "c">>), Spaces1, Lit(methodName), Spaces, Lit(<<"(">>)>>),
     Cat(<<Lit(<<"f", "n">>), Spaces1, Lit(methodName), Spaces, Cls({"<", "("})>>) >>

verifyMethodNode(id, node, root) ==
  LET r == resolveLoc(Get(node.loc), root)
      source == readSource(r.filePath)
      fullName == Replace(id, <<"m", "e", "t", "h", "o", "d", ":">>, <<>>)
      methodName == Last(Split(fullName, "."))
      patterns == methodPatterns(methodName)
  IN IF NoSource(source)
     THEN <<Record("FAIL", "structural", id, "File not found: ${node.loc}", <<Get(node.loc)>>)>>
     ELSE IF ~someHas(Get(source), patterns)
     THEN <<Record("FAIL", "structural", id, "Method '${methodName}' not found in ${node.loc}",
                   <<methodName, Get(node.loc)>>)>>
     ELSE IF HasLine(r.line)
     THEN IF someHas(getRegion(Get(source), Get(r.line), TypeMethodRadius), patterns)
          THEN <<Record("PASS", "structural", id, "Found at ${node.loc}", <<Get(node.loc)>>)>>
          ELSE <<Record("WARN", "structural", id, "Method found but not near line ${line}",
                        <<NumToStr(Get(r.line))>>)>>
     ELSE <<Record("PASS", "structural", id, "Found in ${node.loc}", <<Get(node.loc)>>)>>

\* fk.match(/-> (\w+)/): the first place where "-> " is followed by a word
\* character, and the longest run of word characters from there
RECURSIVE WordRun(_, _)
WordRun(s, i) ==
  IF i <= Len(s) /\ IsWordChar(s[i]) THEN <<s[i]>> \o WordRun(s, i + 1) ELSE <<>>

fkMatch(fk) ==
  LET hit(i) == OccursAt(fk, <<"-", ">", " ">>, i) /\ i + 3 <= Len(fk) /\ IsWordChar(fk[i + 3])
  IN IF \E i \in 1..Len(fk) : hit(i)
     THEN LET i == CHOOSE i \in 1..Len(fk) : hit(i) /\ \A j \in 1..(i - 1) : ~hit(j)
          IN Some(WordRun(fk, i + 3))
     ELSE None

\* a variant of fkRecords that checks no entry
fkRecords_none(id, source, fks) == <<>>

\* the WARN records of the fk loop of verifyTableNode
RECURSIVE fkRecords(_, _, _)
fkRecords(id, source, fks) ==
  IF Len(fks) = 0 THEN <<>>
  ELSE (LET match == fkMatch(fks[1])
        IN IF IsSome(match) /\ ~hasStr(source, Get(match))
           THEN <<Record("WARN", "structural", id, "FK to '${match[1]}' not in DDL", <<Get(match)>>)>>
           ELSE <<>>)
       \o fkRecords(id, source, Tail(fks))

\* the pattern of verifyTableNode, to be used with the "i" flag
tablePattern(tableName) ==
  Cat(<<Lit(<<"C", "R", "E", "A", "T", "E", " ", "T", "A", "B", "L", "E">>), Spaces1,
        Opt(Cat(<<Lit(<<"I", "F", " ", "N", "O", "T", " ", "E", "X", "I", "S", "T", "S">>), Spaces1>>)),
        Lit(tableName), WordBoundary>>)

\* a variant of tableFound that matches the pattern without the "i" flag
tableFound_caseSensitive(tableName, source) == has(source, tablePattern(tableName))

\* has(source, new RegExp(`CREATE TABLE...`, "i"))
tableFound(tableName, source) == hasI(source, tablePattern(tableName))

verifyTableNode(id, node, root) ==
  LET r == resolveLoc(Get(node.loc), root)
      source == readSource(r.filePath)
      tableName == Replace(id, <<"t", "a", "b", "l", "e", ":">>, <<>>)
  IN IF NoSource(source)
     THEN <<Record("FAIL", "structural", id, "File not found: ${node.loc}", <<Get(node.loc)>>)>>
     ELSE IF ~tableFound(tableName, Get(source))
     THEN <<Record("FAIL", "structural", id, "CREATE TABLE '${tableName}' not found", <<tableName>>)>>
     ELSE <<Record("PASS", "structural", id, "Table found", <<>>)>>
          \o (IF IsSome(node.fk) THEN fkRecords(id, Get(source), Get(node.fk)) ELSE <<>>)

\* the routePatterns of verifyEndpointNode
routePatterns(httpMethod, path) ==
  << Cat(<<Lit(<<".">>), Lit(httpMethod), Spaces, Lit(<<"(">>), Spaces, Quote, Lit(path), Quote>>),
     Cat(<<Lit(httpMethod), Star(AnyChar), Lit(path)>>) >>

verifyEndpointNode(id, node, root) ==
  LET r == resolveLoc(Get(node.loc), root)
      source == readSource(r.filePath)
      endpointStr == Replace(id, <<"e", "n", "d", "p", "o", "i", "n", "t", ":">>, <<>>)
      spaceIdx == IndexOf(endpointStr, <<" ">>)
      httpMethod == ToLowerCase(SubSeq(endpointStr, 1, spaceIdx - 1))
      path == SubSeq(endpointStr, spaceIdx + 1, Len(endpointStr))
  IN IF NoSource(source)
     THEN <<Record("FAIL", "structural", id, "File not found: ${node.loc}", <<Get(node.loc)>>)>>
     ELSE IF spaceIdx = 0
     THEN IF hasStr(Get(source), endpointStr)
          THEN <<Record("PASS", "structural", id, "Endpoint reference found", <<>>)>>
          ELSE <<Record("FAIL", "structural", id, "Endpoint '${endpointStr}' not found", <<endpointStr>>)>>
     ELSE IF someHas(Get(source), routePatterns(httpMethod, path))
     THEN IF HasLine(r.line)
          THEN IF someHas(getRegion(Get(source), Get(r.line), EndpointRadius), routePatterns(httpMethod, path))
               THEN <<Record("PASS", "structural", id, "Route found at ${node.loc}", <<Get(node.loc)>>)>>
               ELSE <<Record("WARN", "structural", id, "Route in file but not near line ${line}",
                             <<NumToStr(Get(r.line))>>)>>
          ELSE <<Record("PASS", "structural", id, "Route found in ${node.loc}", <<Get(node.loc)>>)>>
     ELSE <<Record("FAIL", "structural", id, "Route '${httpMethod} ${path}' not found",
                   <<httpMethod, path>>)>>

verifyEventNode(id, node, root) ==
  LET r == resolveLoc(Get(node.loc), root)
      source == readSource(r.filePath)
      eventName == Replace(id, <<"e", "v", "e", "n", "t", ":">>, <<>>)
  IN IF NoSource(source)
     THEN <<Record("FAIL", "structural", id, "File not found: ${node.loc}", <<Get(node.loc)>>)>>
     ELSE IF \/ has(Get(source), Cat(<<Quote, Lit(eventName), Quote>>))
             \/ hasStr(Get(source), eventName)
     THEN <<Record("PASS", "structural", id, "Event '${eventName}' found", <<eventName>>)>>
     ELSE <<Record("FAIL", "structural", id, "Event '${eventName}' not found", <<eventName>>)>>

\* the custom-kind arm of the structural loop of runVerification
verifyCustomNode(id, node, root) ==
  LET r == resolveLoc(Get(node.loc), root)
  IN IF ~NoSource(readSource(r.filePath))
     THEN <<Record("PASS", "structural", id, "File exists at ${node.loc}", <<Get(node.loc)>>)>>
     ELSE <<Record("FAIL", "structural", id, "File not found: ${node.loc}", <<Get(node.loc)>>)>>

\* nodeVerifiers[node.kind], or the custom-kind arm
verifyNode(id, node, root) ==
  CASE node.kind = <<"t", "y", "p", "e">> -> verifyTypeNode(id, node, root)
    [] node.kind = <<"m", "e", "t", "h", "o", "d">> -> verifyMethodNode(id, node, root)
    [] node.kind = <<"t", "a", "b", "l", "e">> -> verifyTableNode(id, node, root)
    [] node.kind = <<"e", "n", "d", "p", "o", "i", "n", "t">> -> verifyEndpointNode(id, node, root)
    [] node.kind = <<"e", "v", "e", "n", "t">> -> verifyEventNode(id, node, root)
    [] OTHER -> verifyCustomNode(id, node, root)

----------------------------------------------------------------------------
(* Edge verification *)

\* the template literal that names an edge in its record
edgeIdOf(edge) == edge.from \o <<" ", "-", "[">> \o edge.rel \o <<"]", "-", ">", " ">> \o edge.to

\* validationPatterns.some((p) => has(source, p))
validationFound(schemaName, source) ==
  someHas(source,
    << Cat(<<Lit(schemaName), Lit(<<".">>),
             Alt(<<Lit(<<"p", "a", "r", "s", "e">>), Lit(<<"s", "a", "f", "e", "P", "a", "r", "s", "e">>), Lit(<<"v", "a", "l", "i", "d", "a", "t", "e">>)>>),
             Spaces, Lit(<<"(">>)>>),
       Cat(<<Lit(schemaName), Lit(<<".", "c", "h", "e", "c", "k">>), Spaces, Lit(<<"(">>)>>) >>)

\* the test of the `calls` arm
callFound(edge, source) ==
  LET methodName == Last(Split(Replace(edge.to, <<"m", "e", "t", "h", "o", "d", ":">>, <<>>), "."))
  IN has(source, Cat(<<Lit(methodName), Spaces, Lit(<<"(">>)>>))

\* dbPatterns.some((p) => has(source, p)) of the `writes` / `reads` arm
dbOpFound(edge, source) ==
  LET tableName == Replace(edge.to, <<"t", "a", "b", "l", "e", ":">>, <<>>)
      dml == Cat(<<Alt(<<Lit(<<"I", "N", "S", "E", "R", "T", " ", "I", "N", "T", "O">>), Lit(<<"U", "P", "D", "A", "T", "E">>), Lit(<<"D", "E", "L", "E", "T", "E", " ", "F", "R", "O", "M">>),
                         Cat(<<Lit(<<"S", "E", "L", "E", "C", "T">>), Star(AnyChar), Lit(<<"F", "R", "O", "M">>)>>)>>),
                   Spaces1, Lit(tableName)>>)
      quoted == Cat(<<Quote, Star(AnyChar), Lit(tableName), Star(AnyChar), Quote>>)
  IN hasI(source, dml) \/ has(source, quoted)

\* the test of the `emits` and `listens` arms
eventFound(edge, source) ==
  LET eventName == Replace(edge.to, <<"e", "v", "e", "n", "t", ":">>, <<>>)
  IN has(source, Cat(<<Quote, Lit(eventName), Quote>>))

\* the arms of `switch (edge.rel)`, reached with both nodes and a source
verifyRelation(edge, toNode, source) ==
  LET edgeId == edgeIdOf(edge)
  IN CASE edge.rel = <<"c", "o", "_", "c", "h", "a", "n", "g", "e">> ->
            <<Record("PASS", "relational", edgeId, "Co-change contract${note}",
                     IF Truthy(edge.note) THEN <<<<":", " ">> \o Get(edge.note)>> ELSE <<<<>>>>)>>
       [] edge.rel = <<"v", "a", "l", "i", "d", "a", "t", "e", "s">> ->
            LET schemaName == toNode.schema
            IN IF Truthy(schemaName)
               THEN IF validationFound(Get(schemaName), source)
                    THEN <<Record("PASS", "relational", edgeId, "${schemaName} validation found",
                                  <<Get(schemaName)>>)>>
                    ELSE <<Record("FAIL", "relational", edgeId, "No ${schemaName} validation call",
                                  <<Get(schemaName)>>)>>
               ELSE <<Record("WARN", "relational", edgeId, "No schema declared on target", <<>>)>>
       [] edge.rel = <<"c", "a", "l", "l", "s">> ->
            IF callFound(edge, source)
            THEN <<Record("PASS", "relational", edgeId, "Call site found", <<>>)>>
            ELSE <<Record("FAIL", "relational", edgeId, "No call to '${methodName}'",
                          <<Last(Split(Replace(edge.to, <<"m", "e", "t", "h", "o", "d", ":">>, <<>>), "."))>>)>>
       [] edge.rel \in {<<"w", "r", "i", "t", "e", "s">>, <<"r", "e", "a", "d", "s">>} ->
            IF dbOpFound(edge, source)
            THEN <<Record("PASS", "relational", edgeId, "DB op on '${tableName}' found",
                          <<Replace(edge.to, <<"t", "a", "b", "l", "e", ":">>, <<>>)>>)>>
            ELSE <<Record("WARN", "relational", edgeId, "No direct DB op (may be indirect)", <<>>)>>
       [] edge.rel = <<"e", "m", "i", "t", "s">> ->
            IF eventFound(edge, source)
            THEN <<Record("PASS", "relational", edgeId, "Event '${eventName}' referenced",
                          <<Replace(edge.to, <<"e", "v", "e", "n", "t", ":">>, <<>>)>>)>>
            ELSE <<Record("FAIL", "relational", edgeId, "No reference to '${eventName}'",
                          <<Replace(edge.to, <<"e", "v", "e", "n", "t", ":">>, <<>>)>>)>>
       [] edge.rel = <<"l", "i", "s", "t", "e", "n", "s">> ->
            IF eventFound(edge, source)
            THEN <<Record("PASS", "relational", edgeId, "Listener for '${eventName}' found",
                          <<Replace(edge.to, <<"e", "v", "e", "n", "t", ":">>, <<>>)>>)>>
            ELSE <<Record("WARN", "relational", edgeId, "No listener for '${eventName}'",
                          <<Replace(edge.to, <<"e", "v", "e", "n", "t", ":">>, <<>>)>>)>>
       [] OTHER ->
            <<Record("PASS", "relational", edgeId, "Relation '${edge.rel}' accepted", <<edge.rel>>)>>

\* a variant of verifyEdge that looks the target node up before the source node
verifyEdge_targetFirst(edge, nodes, root) ==
  LET edgeId == edgeIdOf(edge)
  IN IF ~HasNode(nodes, edge.to)
     THEN <<Record("FAIL", "relational", edgeId, "Target node missing", <<>>)>>
     ELSE IF ~HasNode(nodes, edge.from)
     THEN <<Record("FAIL", "relational", edgeId, "Source node missing", <<>>)>>
     ELSE LET source == readSource(resolveLoc(Get(NodeAt(nodes, edge.from).loc), root).filePath)
          IN IF NoSource(source)
             THEN <<Record("FAIL", "relational", edgeId, "Source file not found", <<>>)>>
             ELSE verifyRelation(edge, NodeAt(nodes, edge.to), Get(source))

\* a variant of verifyEdge that wants the file of the target node readable too
verifyEdge_readsTarget(edge, nodes, root) ==
  LET edgeId == edgeIdOf(edge)
  IN IF ~HasNode(nodes, edge.from)
     THEN <<Record("FAIL", "relational", edgeId, "Source node missing", <<>>)>>
     ELSE IF ~HasNode(nodes, edge.to)
     THEN <<Record("FAIL", "relational", edgeId, "Target node missing", <<>>)>>
     ELSE LET source == readSource(resolveLoc(Get(NodeAt(nodes, edge.from).loc), root).filePath)
              target == readSource(resolveLoc(Get(NodeAt(nodes, edge.to).loc), root).filePath)
          IN IF NoSource(source) \/ NoSource(target)
             THEN <<Record("FAIL", "relational", edgeId, "Source file not found", <<>>)>>
             ELSE verifyRelation(edge, NodeAt(nodes, edge.to), Get(source))

\* verifyEdge(edge, nodes, root, projectRoot)
verifyEdge(edge, nodes, root) ==
  LET edgeId == edgeIdOf(edge)
  IN IF ~HasNode(nodes, edge.from)
     THEN <<Record("FAIL", "relational", edgeId, "Source node missing", <<>>)>>
     ELSE IF ~HasNode(nodes, edge.to)
     THEN <<Record("FAIL", "relational", edgeId, "Target node missing", <<>>)>>
     ELSE LET fromNode == NodeAt(nodes, edge.from)
              toNode == NodeAt(nodes, edge.to)
              source == readSource(resolveLoc(Get(fromNode.loc), root).filePath)
          IN IF NoSource(source)
             THEN <<Record("FAIL", "relational", edgeId, "Source file not found", <<>>)>>
             ELSE verifyRelation(edge, toNode, Get(source))

----------------------------------------------------------------------------
(* Flow verification.  step.then is a string (tag "str") or a mapping from *)
(* condition labels to targets (tag "obj", entries in insertion order).    *)

ThenStr(s) == [tag |-> "str", s |-> s, br |-> <<>>]
ThenObj(br) == [tag |-> "obj", s |-> <<>>, br |-> br]

\* typeof step.then === "object" && step.then !== null
IsBranch(then) == then.tag = "obj"

\* target !== "next" && target !== "DONE" && target !== "FAIL"
NonTerminal(target) == target \notin {<<"n", "e", "x", "t">>, <<"D", "O", "N", "E">>, <<"F", "A", "I", "L">>}

\* a variant of missingTargets that looks at the first branch of a step only
missingTargets_firstBranch(br, nodes) ==
  IF Len(br) > 0 /\ NonTerminal(br[1].target) /\ ~HasNode(nodes, br[1].target)
  THEN <<br[1].target>> ELSE <<>>

\* the ids pushed on `missing` for the branch targets of one step
RECURSIVE missingTargets(_, _)
missingTargets(br, nodes) ==
  IF Len(br) = 0 THEN <<>>
  ELSE (IF NonTerminal(br[1].target) /\ ~HasNode(nodes, br[1].target)
        THEN <<br[1].target>> ELSE <<>>)
       \o missingTargets(Tail(br), nodes)

\* a variant of missingOf that looks at branch targets only, not at step nodes
missingOf_targetsOnly(steps, nodes) ==
  LET RECURSIVE go(_)
      go(ss) == IF Len(ss) = 0 THEN <<>>
                ELSE (IF IsBranch(ss[1].then) THEN missingTargets(ss[1].then.br, nodes) ELSE <<>>)
                     \o go(Tail(ss))
  IN go(steps)

\* the ids pushed on `missing` by the first loop of verifyFlows
RECURSIVE missingOf(_, _)
missingOf(steps, nodes) ==
  IF Len(steps) = 0 THEN <<>>
  ELSE (IF ~HasNode(nodes, steps[1].node) THEN <<steps[1].node>> ELSE <<>>)
       \o (IF IsBranch(steps[1].then) THEN missingTargets(steps[1].then.br, nodes) ELSE <<>>)
       \o missingOf(Tail(steps), nodes)

\* a variant of inSteps that compares the target with the first step only
inSteps_firstStep(steps, target) == Len(steps) > 0 /\ steps[1].node = target

\* flow.steps.some((s) => s.node === target)
inSteps(steps, target) == \E k \in DOMAIN steps : steps[k].node = target

\* the WARN records of one step in the second loop of verifyFlows
RECURSIVE unreachableOfStep(_, _, _)
unreachableOfStep(name, br, steps) ==
  IF Len(br) = 0 THEN <<>>
  ELSE (IF NonTerminal(br[1].target) /\ ~inSteps(steps, br[1].target)
        THEN <<Record("WARN", "flow", name, "'${cond}' -> '${target}' not in step list",
                      <<br[1].cond, br[1].target>>)>>
        ELSE <<>>)
       \o unreachableOfStep(name, Tail(br), steps)

\* the WARN records of the second loop of verifyFlows, over steps k..
RECURSIVE unreachableOf(_, _, _)
unreachableOf(name, steps, k) ==
  IF k > Len(steps) THEN <<>>
  ELSE (IF IsBranch(steps[k].then) THEN unreachableOfStep(name, steps[k].then.br, steps) ELSE <<>>)
       \o unreachableOf(name, steps, k + 1)

\* one iteration of the loop of verifyFlows, for a flow that has steps
verifyFlow(name, flow, nodes) ==
  LET steps == Get(flow.steps)
      missing == missingOf(steps, nodes)
      warns == unreachableOf(name, steps, 1)
  IN (IF Len(missing) = 0
      THEN <<Record("PASS", "flow", name, "All ${flow.steps.length} step nodes exist",
                    <<NumToStr(Len(steps))>>)>>
      ELSE <<Record("FAIL", "flow", name, "Missing nodes: ${missing}",
                    <<Join(missing, <<",", " ">>)>>)>>)
     \o warns
     \o (IF Len(warns) = 0
         THEN <<Record("PASS", "flow", name, "All branch targets reachable", <<>>)>>
         ELSE <<>>)

----------------------------------------------------------------------------
(* Invariant verification *)

\* inv.scope || []
scopeOf(inv) == IF IsSome(inv.scope) THEN Get(inv.scope) ELSE <<>>

\* one iteration of the loop of verifyInvariants
verifyInvariant(inv, nodes, root) ==
  LET scope == scopeOf(inv)
      missingNodes == SelectSeq(scope, LAMBDA s : ~HasNode(nodes, s))
      allFilesExist ==
        \A k \in DOMAIN scope :
          ~NoSource(readSource(resolveLoc(Get(NodeAt(nodes, scope[k]).loc), root).filePath))
  IN IF Len(missingNodes) > 0
     THEN <<Record("FAIL", "invariant", inv.id, "Scoped nodes missing: ${missingNodes}",
                   <<Join(missingNodes, <<",", " ">>)>>)>>
     ELSE IF ~allFilesExist
     THEN <<Record("FAIL", "invariant", inv.id, "Some scoped files not found", <<>>)>>
     ELSE <<Record("WARN", "invariant", inv.id,
                   "${inv.rule} - requires manual/custom verification${enforceNote}",
                   <<inv.rule, IF Truthy(inv.enforce)
                                THEN <<" ", "[", "e", "n", "f", "o", "r", "c", "e", ":", " ">> \o Get(inv.enforce) \o <<"]">>
                                ELSE <<>> >>)>>

----------------------------------------------------------------------------
(* Command line of `verify` and impact analysis.  The report of an impact  *)
(* query is what it prints, section by section.                            *)

\* verifyArgs.indexOf("--impact"): 0-based, -1 when absent
impactIdxOf(args) ==
  IF \E k \in DOMAIN args : args[k] = <<"-", "-", "i", "m", "p", "a", "c", "t">>
  THEN (CHOOSE k \in DOMAIN args :
          /\ args[k] = <<"-", "-", "i", "m", "p", "a", "c", "t">>
          /\ \A j \in 1..(k - 1) : args[j] # <<"-", "-", "i", "m", "p", "a", "c", "t">>) - 1
  ELSE -1

\* impactIdx !== -1 ? verifyArgs[impactIdx + 1] : null; reading past the end
\* of the list gives undefined
impactNodeOf(args) ==
  LET impactIdx == impactIdxOf(args)
  IN IF impactIdx # -1 /\ impactIdx + 2 <= Len(args)
     THEN Some(args[impactIdx + 2])
     ELSE None

\* property names every object inherits from Object.prototype
InheritedKeys ==
  {<<"c", "o", "n", "s", "t", "r", "u", "c", "t", "o", "r">>, <<"t", "o", "S", "t", "r", "i", "n", "g">>, <<"t", "o", "L", "o", "c", "a", "l", "e", "S", "t", "r", "i", "n", "g">>, <<"v", "a", "l", "u", "e", "O", "f">>, <<"h", "a", "s", "O", "w", "n", "P", "r", "o", "p", "e", "r", "t", "y">>,
   <<"i", "s", "P", "r", "o", "t", "o", "t", "y", "p", "e", "O", "f">>, <<"p", "r", "o", "p", "e", "r", "t", "y", "I", "s", "E", "n", "u", "m", "e", "r", "a", "b", "l", "e">>, <<"_", "_", "p", "r", "o", "t", "o", "_", "_">>}

\* `if (node)` for node = flowgraph.nodes[nodeId], nodeId being any string
\* given on the command line: an own key, or an inherited property
queryHit(nodes, nodeId) == HasNode(nodes, nodeId) \/ nodeId \in InheritedKeys

\* the printable ASCII characters in code order
AsciiOrder == <<" ", "!", "\"", "#", "$", "%", "&", "'", "(", ")", "*", "+", ",", "-", ".", "/", "0", "1", "2", "3", "4", "5", "6", "7", "8", "9", ":", ";", "<", "=", ">", "?", "@", "A", "B", "C", "D", "E", "F", "G", "H", "I", "J", "K", "L", "M", "N", "O", "P", "Q", "R", "S", "T", "U", "V", "W", "X", "Y", "Z", "[", "\\", "]", "^", "_", Backquote, "a", "b", "c", "d", "e", "f", "g", "h", "i", "j", "k", "l", "m", "n", "o", "p", "q", "r", "s", "t", "u", "v", "w", "x", "y", "z", "{", "|", "}", "~">>

CharCode(c) == CHOOSE i \in DOMAIN AsciiOrder : AsciiOrder[i] = c

\* a < b as Array.prototype.sort compares strings (by code units)
StrLess(a, b) ==
  \E k \in 1..(Min(Len(a), Len(b)) + 1) :
    /\ \A j \in 1..(k - 1) : a[j] = b[j]
    /\ \/ k > Len(a) /\ k <= Len(b)
       \/ k <= Len(a) /\ k <= Len(b) /\ CharCode(a[k]) < CharCode(b[k])

\* Object.keys(flowgraph.nodes).sort()
sortedKeys(nodes) ==
  LET ids == {nodes[k].id : k \in DOMAIN nodes}
  IN [i \in 1..Cardinality(ids) |->
        CHOOSE x \in ids : Cardinality({y \in ids : StrLess(y, x)}) = i - 1]

\* a variant of liveEdges that keeps every edge
liveEdges_all(edges) == edges

\* flowgraph.edges.filter((e) => !e._comment)
liveEdges(edges) == SelectSeq(edges, LAMBDA e : ~Truthy(e.comment))

\* e.note, printed on a line of its own when truthy
noteOf(e) == IF Truthy(e.note) THEN e.note ELSE None

\* the lines of the section "Outgoing edges"
outgoingLines(edges, nodeId) ==
  LET outgoing == SelectSeq(edges, LAMBDA e : e.from = nodeId)
  IN [k \in DOMAIN outgoing |->
        [marker |-> outgoing[k].rel = <<"c", "o", "_", "c", "h", "a", "n", "g", "e">>, rel |-> outgoing[k].rel,
         peer |-> outgoing[k].to, note |-> noteOf(outgoing[k])]]

\* the lines of the section "Incoming edges"
incomingLines(edges, nodeId) ==
  LET incoming == SelectSeq(edges, LAMBDA e : e.to = nodeId)
  IN [k \in DOMAIN incoming |->
        [marker |-> incoming[k].rel = <<"c", "o", "_", "c", "h", "a", "n", "g", "e">>, rel |-> incoming[k].rel,
         peer |-> incoming[k].from, note |-> noteOf(incoming[k])]]

\* the lines of the section "Required co-changes": cochangeOut, then cochangeIn
requiredLines(edges, nodeId) ==
  LET cochangeOut == SelectSeq(edges, LAMBDA e : e.from = nodeId /\ e.rel = <<"c", "o", "_", "c", "h", "a", "n", "g", "e">>)
      cochangeIn == SelectSeq(edges, LAMBDA e : e.to = nodeId /\ e.rel = <<"c", "o", "_", "c", "h", "a", "n", "g", "e">>)
  IN [k \in DOMAIN cochangeOut |->
        [dir |-> "out", peer |-> cochangeOut[k].to, note |-> noteOf(cochangeOut[k])]]
     \o [k \in DOMAIN cochangeIn |->
        [dir |-> "in", peer |-> cochangeIn[k].from, note |-> noteOf(cochangeIn[k])]]

\* flow.steps.some((s) => s.node === nodeId)
inFlowOf(steps, nodeId) == \E k \in DOMAIN steps : steps[k].node = nodeId

\* flow.steps.some((s) => ... Object.values(s.then).includes(nodeId))
branchTargetOf(steps, nodeId) ==
  \E k \in DOMAIN steps :
    /\ IsBranch(steps[k].then)
    /\ \E m \in DOMAIN steps[k].then.br : steps[k].then.br[m].target = nodeId

\* containingFlows over flows that all have steps, in the order of the keys
containingFlowsOf(flows, nodeId) ==
  LET hit == SelectSeq(flows, LAMBDA f : \/ inFlowOf(Get(f.steps), nodeId)
                                         \/ branchTargetOf(Get(f.steps), nodeId))
  IN [k \in DOMAIN hit |->
        [name |-> hit[k].name, inFlow |-> inFlowOf(Get(hit[k].steps), nodeId),
         branchTarget |-> branchTargetOf(Get(hit[k].steps), nodeId),
         trigger |-> hit[k].trigger]]

\* (flowgraph.invariants || []).filter((inv) => (inv.scope || []).includes(nodeId))
scopedInvariantsOf(invariants, nodeId) ==
  SelectSeq(invariants, LAMBDA inv : \E k \in DOMAIN scopeOf(inv) : scopeOf(inv)[k] = nodeId)

\* verifyArgs.find((a) => !a.startsWith("--") &&
\*   (impactIdx === -1 || verifyArgs.indexOf(a) !== impactIdx + 1)):
\* indexOf gives the first position that holds a
explicitFileOf(args) ==
  LET impactIdx == impactIdxOf(args)
      indexOf(a) == (CHOOSE k \in DOMAIN args :
                       args[k] = a /\ \A j \in 1..(k - 1) : args[j] # a) - 1
      file(k) == /\ ~(Len(args[k]) >= 2 /\ SubSeq(args[k], 1, 2) = <<"-", "-">>)
                 /\ (impactIdx = -1 \/ indexOf(args[k]) # impactIdx + 1)
  IN IF \E k \in DOMAIN args : file(k)
     THEN Some(args[CHOOSE k \in DOMAIN args : file(k) /\ \A j \in 1..(k - 1) : ~file(j)])
     ELSE None

\* a variant of resolveFlowgraphPath that settles for the first match it finds
resolveFlowgraphPath_firstMatch(explicit, entries) ==
  LET matches == SelectSeq(entries, LAMBDA e :
                   Len(e) >= 15 /\ SubSeq(e, Len(e) - 14, Len(e)) = <<".", "f", "l", "o", "w", "g", "r", "a", "p", "h", ".", "j", "s", "o", "n">>)
  IN IF Len(matches) >= 1 THEN [path |-> Some(matches[1]), exit |-> FALSE, err |-> <<>>]
     ELSE [path |-> None, exit |-> FALSE, err |-> <<>>]

\* resolveFlowgraphPath: the path, or process.exit(1) after the lines of err;
\* an explicit path exists if the working directory lists it
resolveFlowgraphPath(explicit, entries) ==
  IF Truthy(explicit)
  THEN IF \E k \in DOMAIN entries : entries[k] = Get(explicit)
       THEN [path |-> explicit, exit |-> FALSE, err |-> <<>>]
       ELSE [path |-> None, exit |-> TRUE, err |-> <<<<"F", "i", "l", "e", " ", "n", "o", "t", " ", "f", "o", "u", "n", "d", ":", " ">> \o Get(explicit)>>]
  ELSE LET matches == SelectSeq(entries, LAMBDA e :
                        Len(e) >= 15 /\ SubSeq(e, Len(e) - 14, Len(e)) = <<".", "f", "l", "o", "w", "g", "r", "a", "p", "h", ".", "j", "s", "o", "n">>)
       IN IF Len(matches) = 1 THEN [path |-> Some(matches[1]), exit |-> FALSE, err |-> <<>>]
          ELSE IF Len(matches) > 1
          THEN [path |-> None, exit |-> TRUE,
                err |-> <<<<"M", "u", "l", "t", "i", "p", "l", "e", " ", "f", "l", "o", "w", "g", "r", "a", "p", "h", " ", "f", "i", "l", "e", "s", " ", "f", "o", "u", "n", "d", ".", " ", "S", "p", "e", "c", "i", "f", "y", " ", "o", "n", "e", ":">>>>
                        \o [k \in DOMAIN matches |-> <<" ", " ">> \o matches[k]]]
          ELSE [path |-> None, exit |-> FALSE, err |-> <<>>]

\* a property name that is an array index: a canonical decimal numeral below
\* 2^32 - 1
IsArrayIndex(name) ==
  /\ Len(name) > 0
  /\ \A k \in DOMAIN name : IsDigit(name[k])
  /\ (Len(name) = 1 \/ name[1] # "0")
  /\ (Len(name) < 10 \/ (Len(name) = 10 /\ StrLess(name, <<"4", "2", "9", "4", "9", "6", "7", "2", "9", "5">>)))

\* Object.entries(flows) of the parsed table: the names that are array indices
\* first, in ascending numeric order, then the others in the order written
objectEntries(flows) ==
  LET below(a, b) == Len(a) < Len(b) \/ (Len(a) = Len(b) /\ StrLess(a, b))
      RECURSIVE ascending(_)
      ascending(S) ==
        IF S = {} THEN <<>>
        ELSE LET m == CHOOSE k \in S : \A j \in S \ {k} : below(flows[k].name, flows[j].name)
             IN <<flows[m]>> \o ascending(S \ {m})
  IN ascending({k \in DOMAIN flows : IsArrayIndex(flows[k].name)})
     \o SelectSeq(flows, LAMBDA f : ~IsArrayIndex(f.name))

----------------------------------------------------------------------------
(* Documents and source trees the runs are started on *)

\* longest edge list of a document
MaxEdges == 2

\* longest step list of a flow
MaxSteps == 2

\* longest scope of an invariant
MaxScope == 2

\* most entries of the working directory
MaxEntries == 3

\* largest line number tried in a round trip
MaxLine == 12

\* sequences over S of length lo..hi
SeqsOf(S, lo, hi) == UNION {[1..n -> S] : n \in lo..hi}

\* xs with x put in at position k
InsertAt(xs, k, x) == SubSeq(xs, 1, k - 1) \o <<x>> \o SubSeq(xs, k, Len(xs))

MkNode(kind, loc, schema, values, fk) ==
  [kind |-> kind, loc |-> loc, schema |-> schema, values |-> values, fk |-> fk]

MkEntry(id, node) == [id |-> id, node |-> node]

MkEdge(from, to, rel, note, comment) ==
  [from |-> from, to |-> to, rel |-> rel, note |-> note, comment |-> comment]

MkStep(node, then) == [node |-> node, then |-> then]

MkFlow(name, steps) == [name |-> name, trigger |-> <<"t">>, steps |-> steps]

MkInvariant(id, scope, enforce) ==
  [id |-> id, rule |-> <<"r">>, scope |-> scope, enforce |-> enforce]

MkDoc(nodes, edges, flows, invariants) ==
  [meta |-> [root |-> <<"s", "/">>], nodes |-> nodes, edges |-> edges,
   flows |-> flows, invariants |-> invariants]

idM == <<"m", "e", "t", "h", "o", "d", ":", "R", ".", "c">>
idT == <<"t", "y", "p", "e", ":", "T">>
idU == <<"t", "y", "p", "e", ":", "U">>
idTab == <<"t", "a", "b", "l", "e", ":", "t">>
idEv == <<"e", "v", "e", "n", "t", ":", "e">>
idA == <<"j", "o", "b", ":", "a">>
idB == <<"j", "o", "b", ":", "b">>
idGhost == <<"m", "e", "t", "h", "o", "d", ":", "G">>

pathA == <<"s", "/", "a">>
pathB == <<"s", "/", "b">>

\* documents that vary one edge: a method node in file a; two types (one
\* declaring schema S), a table and an event in file b
EdgeNodes ==
  << MkEntry(idM, MkNode(<<"m", "e", "t", "h", "o", "d">>, Some(<<"a">>), None, None, None)),
     MkEntry(idT, MkNode(<<"t", "y", "p", "e">>, Some(<<"b">>), Some(<<"S">>), None, None)),
     MkEntry(idU, MkNode(<<"t", "y", "p", "e">>, Some(<<"b", ":", "2">>), None, None, None)),
     MkEntry(idTab, MkNode(<<"t", "a", "b", "l", "e">>, Some(<<"b">>), None, None, None)),
     MkEntry(idEv, MkNode(<<"e", "v", "e", "n", "t">>, Some(<<"b">>), None, None, None)) >>

EdgeTargets ==
  ({<<"v", "a", "l", "i", "d", "a", "t", "e", "s">>} \X {idT, idU, idGhost})
  \cup ({<<"c", "o", "_", "c", "h", "a", "n", "g", "e">>, <<"w", "r", "i", "t", "e", "s">>, <<"r", "e", "a", "d", "s">>, <<"u", "s", "e", "s">>} \X {idTab, idGhost})
  \cup ({<<"c", "a", "l", "l", "s">>} \X {idM, idGhost})
  \cup ({<<"e", "m", "i", "t", "s">>, <<"l", "i", "s", "t", "e", "n", "s">>} \X {idEv, idGhost})

EdgeUniverse ==
  {MkEdge(from, rt[2], rt[1], None, None) : from \in {idM, idGhost}, rt \in EdgeTargets}
  \cup {MkEdge(idM, rt[2], rt[1], None, Some(<<"-", "-">>)) : rt \in EdgeTargets}

FillerEdge == MkEdge(idTab, idM, <<"c", "o", "_", "c", "h", "a", "n", "g", "e">>, Some(<<"n">>), None)

\* documents that vary one flow over nodes of a custom kind
FlowNodes ==
  << MkEntry(idA, MkNode(<<"j", "o", "b">>, Some(<<"a">>), None, None, None)),
     MkEntry(idB, MkNode(<<"j", "o", "b">>, Some(<<"a">>), None, None, None)) >>

Br(cond, target) == [cond |-> cond, target |-> target]

\* flows named f of up to MaxSteps steps; a step names a known or an unknown
\* node and goes on, jumps, or branches
FlowUniverse ==
  {MkFlow(<<"f">>, None)} \cup
  {MkFlow(<<"f">>, Some(steps)) : steps \in
     SeqsOf({MkStep(n, t) :
               n \in {idA, idB, idGhost},
               t \in { ThenStr(<<"n", "e", "x", "t">>), ThenStr(idGhost),
                       ThenObj(<<>>),
                       ThenObj(<<Br(<<"o", "k">>, <<"n", "e", "x", "t">>)>>),
                       ThenObj(<<Br(<<"o", "k">>, idA)>>),
                       ThenObj(<<Br(<<"o", "k">>, idB)>>),
                       ThenObj(<<Br(<<"o", "k">>, <<"D", "O", "N", "E">>), Br(<<"e", "r", "r">>, idGhost)>>),
                       ThenObj(<<Br(<<"o", "k">>, idGhost), Br(<<"e", "r", "r">>, <<"F", "A", "I", "L">>)>>) }},
            0, MaxSteps)}

FillerFlow == MkFlow(<<"g">>, Some(<<MkStep(idA, ThenStr(<<"n", "e", "x", "t">>)), MkStep(idB, ThenStr(<<"D", "O", "N", "E">>))>>))

\* documents that vary one invariant over two nodes in two files
InvariantNodes ==
  << MkEntry(idA, MkNode(<<"j", "o", "b">>, Some(<<"a">>), None, None, None)),
     MkEntry(idB, MkNode(<<"j", "o", "b">>, Some(<<"b", ":", "3">>), None, None, None)) >>

InvariantUniverse ==
  {MkInvariant(<<"I">>, scope, enforce) :
     scope \in {None} \cup {Some(s) : s \in SeqsOf({idA, idB, idGhost}, 0, MaxScope)},
     enforce \in {None, Some(<<"l", "i", "n", "t">>)}}

FillerInvariant == MkInvariant(<<"J">>, Some(<<idA>>), None)

InvariantLists ==
  {<<i>> : i \in InvariantUniverse} \cup {<<FillerInvariant, i>> : i \in InvariantUniverse}

PlainSources == {None, Some(<<>>), Some(<<"x">>)}

\* documents and queries for impact analysis: edges among two known nodes
\* and an unknown id, some of them carrying a `_comment`
ImpactEdgeUniverse ==
  {MkEdge(from, to, rel, None, None) :
     from \in {idA, idB, idGhost}, to \in {idA, idB, idGhost}, rel \in {<<"c", "o", "_", "c", "h", "a", "n", "g", "e">>, <<"c", "a", "l", "l", "s">>}}
  \cup {MkEdge(idA, idB, <<"c", "o", "_", "c", "h", "a", "n", "g", "e">>, Some(<<"n">>), Some(<<"-", "-">>)),
        MkEdge(idB, idA, <<"c", "a", "l", "l", "s">>, None, Some(<<"-", "-">>)),
        MkEdge(idA, idB, <<"c", "o", "_", "c", "h", "a", "n", "g", "e">>, Some(<<"n">>), None)}

----------------------------------------------------------------------------
(* The run: runVerification, one step per node, edge, flow and invariant *)

\* the process starts: `const results = []`, nothing resolved or printed yet
InitRun ==
  /\ results = <<>>
  /\ pc = "cli"
  /\ idx = 1
  /\ exitStatus = -1
  /\ report = [found |-> None, known |-> None, outgoing |-> None, incoming |-> None,
               required |-> None, flows |-> None, invariants |-> None]
  /\ flowgraphPath = None
  /\ stderr = <<>>
  /\ previous = None

\* documents that vary one edge, alone or among co_change edges; file b
\* holds the declarations of the nodes the edges point to
InitEdges ==
  /\ flowgraph \in
       {MkDoc(EdgeNodes, edges, None, None) : edges \in
          UNION {{InsertAt([j \in 1..n |-> FillerEdge], k, e) : k \in 1..(n + 1), e \in EdgeUniverse} :
                   n \in 0..(MaxEdges - 1)}}
  /\ files \in
       {(pathA :> a) @@ (pathB :> Some(<<"t", "y", "p", "e", " ", "T", "\n", "t", "y", "p", "e", " ", "U", "\n", "C", "R", "E", "A", "T", "E", " ", "T", "A", "B", "L", "E", " ", "t", " ", "(", "\n", "'", "e", "'">>)) : a \in
          { None, Some(<<>>), Some(<<"x">>), Some(<<"c", " ", "(", "y", ")">>), Some(<<"S", ".", "p", "a", "r", "s", "e", "(", "y", ")">>), Some(<<"S", ".", "c", "h", "e", "c", "k", " ", "(", "y", ")">>),
            Some(<<"i", "n", "s", "e", "r", "t", " ", " ", "i", "n", "t", "o", " ", "t">>), Some(<<"'", "t", "'">>), Some(<<"\"", "e", "\"">>) }}
  /\ verifyArgs = <<>>
  /\ cwd = <<<<"d", ".", "f", "l", "o", "w", "g", "r", "a", "p", "h", ".", "j", "s", "o", "n">>>>
  /\ runs = 2
  /\ InitRun

\* documents that vary one flow, alone or after another; flows named by
\* numerals
InitFlows ==
  /\ flowgraph \in
       {MkDoc(FlowNodes, <<>>, Some(flows), Some(<<>>)) : flows \in
          {<<f>> : f \in FlowUniverse} \cup {<<FillerFlow, f>> : f \in FlowUniverse}
          \cup {<<MkFlow(<<"1", "0">>, FillerFlow.steps), MkFlow(name, FillerFlow.steps)>> :
                  name \in {<<"9">>, <<"0", "9">>, <<"x">>}}}
  /\ files = (pathA :> Some(<<"x">>))
  /\ verifyArgs = <<>>
  /\ cwd = <<<<"d", ".", "f", "l", "o", "w", "g", "r", "a", "p", "h", ".", "j", "s", "o", "n">>>>
  /\ runs = 1
  /\ InitRun

InitInvariants ==
  /\ flowgraph \in {MkDoc(InvariantNodes, <<>>, Some(<<>>), Some(invs)) : invs \in InvariantLists}
  /\ files \in {(pathA :> a) @@ (pathB :> b) : a \in PlainSources, b \in PlainSources}
  /\ verifyArgs = <<>>
  /\ cwd = <<<<"d", ".", "f", "l", "o", "w", "g", "r", "a", "p", "h", ".", "j", "s", "o", "n">>>>
  /\ runs = 2
  /\ InitRun

\* documents that vary one node, of every kind, with and without a loc; the
\* second text holds the same evidence far below line 1, outside every
\* window around it
InitNodes ==
  /\ flowgraph \in
       {MkDoc(<<MkEntry(id, MkNode(Split(id, ":")[1], loc, None, None, None))>>, <<>>, None, None) :
          id \in {idM, idT, idTab, idEv, idA, <<"e", "n", "d", "p", "o", "i", "n", "t", ":", "G", "E", "T", " ", "/", "p">>},
          loc \in {None, Some(<<"a">>), Some(<<"a", ":", "1">>)}}
  /\ files \in
       {(pathA :> a) : a \in
          { None, Some(<<>>),
            Some(<<"c", "l", "a", "s", "s", " ", "T", "\n", "c", "(", ")", "\n", "c", "r", "e", "a", "t", "e", " ", "t", "a", "b", "l", "e", " ", "t", "\n", "'", "e", "'", "\n", ".", "g", "e", "t", "(", "'", "/", "p", "'">>),
            Some(<<"\n", "\n", "\n", "\n", "\n", "\n", "\n", "\n", "\n", "\n", "\n", "\n", "\n", "\n", "\n", "\n", "\n", "\n", "\n", "\n", "c", "l", "a", "s", "s", " ", "T", "\n", "c", "(", ")", "\n", "c", "r", "e", "a", "t", "e", " ", "t", "a", "b", "l", "e", " ", "t", "\n", "'", "e", "'", "\n", ".", "g", "e", "t", "(", "'", "/", "p", "'">>) }}
  /\ verifyArgs = <<>>
  /\ cwd = <<<<"d", ".", "f", "l", "o", "w", "g", "r", "a", "p", "h", ".", "j", "s", "o", "n">>>>
  /\ runs = 1
  /\ InitRun

\* documents that vary one table node: its line and its foreign keys
InitTableNodes ==
  /\ flowgraph \in
       {MkDoc(<<MkEntry(idTab, MkNode(<<"t", "a", "b", "l", "e">>, loc, None, None, fk))>>, <<>>, None, None) :
          loc \in {Some(<<"a">>), Some(<<"a", ":", "1">>)},
          fk \in {None, Some(<<<<"u", "_", "i", "d", " ", "-", ">", " ", "u">>>>), Some(<<<<"u", "_", "i", "d", " ", "-", ">", " ", "u">>, <<"w", "_", "i", "d", " ", "-", ">", " ", "w">>>>), Some(<<<<"w">>>>)}}
  /\ files \in
       {(pathA :> Some(a)) : a \in
          { <<"C", "R", "E", "A", "T", "E", " ", "T", "A", "B", "L", "E", " ", "t", " ", "(", "u", ")">>, <<"c", "r", "e", "a", "t", "e", " ", "t", "a", "b", "l", "e", " ", "t">>, <<"C", "r", "e", "a", "t", "e", " ", "T", "a", "b", "l", "e", "\t", "I", "f", " ", "N", "o", "t", " ", "E", "x", "i", "s", "t", "s", " ", " ", "t", ";", "\n", "w">>,
            <<"c", "r", "e", "a", "t", "e", " ", "t", "a", "b", "l", "e", " ", "t", "t">>, <<"c", "r", "e", "a", "t", "e", " ", "t", "a", "b", "l", "e", "t">>, <<"c", "r", "e", "a", "t", "e", " ", " ", "t", "a", "b", "l", "e", " ", "t">>,
            <<"c", "r", "e", "a", "t", "e", " ", "t", "a", "b", "l", "e", " ", "i", "f", " ", "e", "x", "i", "s", "t", "s", " ", "t">>, <<"d", "r", "o", "p", " ", "t", "a", "b", "l", "e", " ", "t">>,
            <<"\n", "\n", "\n", "\n", "\n", "\n", "\n", "\n", "\n", "\n", "\n", "\n", "\n", "\n", "\n", "\n", "\n", "\n", "\n", "\n", "c", "r", "e", "a", "t", "e", " ", "t", "a", "b", "l", "e", "\n", "t", "(", "u", ",", " ", "w", ")">> }}
  /\ verifyArgs = <<>>
  /\ cwd = <<<<"d", ".", "f", "l", "o", "w", "g", "r", "a", "p", "h", ".", "j", "s", "o", "n">>>>
  /\ runs = 1
  /\ InitRun

\* documents that vary one type node: its line, schema and enumerated values
InitTypeNodes ==
  /\ flowgraph \in
       {MkDoc(<<MkEntry(idT, MkNode(<<"t", "y", "p", "e">>, loc, schema, values, None))>>, <<>>, None, None) :
          loc \in {Some(<<"a">>), Some(<<"a", ":", "1">>)},
          schema \in {None, Some(<<"S">>)},
          values \in {None, Some(<<>>), Some(<<<<"V">>>>), Some(<<<<"V">>, <<"W">>>>)}}
  /\ files \in
       {(pathA :> Some(a)) : a \in
          { <<"e", "n", "u", "m", " ", "T">>, <<"e", "n", "u", "m", " ", "T", " ", "{", " ", "V", " ", "}">>, <<"e", "n", "u", "m", " ", "T", " ", "{", " ", "V", ",", " ", "W", " ", "}", " ", "S">>, <<"c", "o", "n", "s", "t", " ", "T", "S", "c", "h", "e", "m", "a", " ", "=", " ", "S">>, <<"S", " ", "V", " ", "W">>,
            <<"\n", "\n", "\n", "\n", "\n", "e", "n", "u", "m", " ", "T", " ", "{", " ", "V", " ", "}">>, <<"\n", "\n", "\n", "\n", "e", "n", "u", "m", " ", "T", "\n", "{", " ", "V", " ", "}">>,
            <<"\n", "\n", "\n", "\n", "\n", "\n", "\n", "\n", "\n", "\n", "\n", "\n", "\n", "\n", "\n", "\n", "\n", "\n", "\n", "\n", "e", "n", "u", "m", " ", "T", " ", "{", " ", "W", " ", "}">> }}
  /\ verifyArgs = <<>>
  /\ cwd = <<<<"d", ".", "f", "l", "o", "w", "g", "r", "a", "p", "h", ".", "j", "s", "o", "n">>>>
  /\ runs = 1
  /\ InitRun

\* impact queries: known ids, an unknown one, and a name that is no node id
InitImpactEdges ==
  /\ flowgraph \in {MkDoc(FlowNodes, edges, None, None) : edges \in SeqsOf(ImpactEdgeUniverse, 0, MaxEdges)}
  /\ files = (pathA :> Some(<<"x">>))
  /\ verifyArgs \in {<<<<"-", "-", "i", "m", "p", "a", "c", "t">>, q>> : q \in {idA, idB, idGhost, <<"c", "o", "n", "s", "t", "r", "u", "c", "t", "o", "r">>}}
  /\ cwd = <<<<"d", ".", "f", "l", "o", "w", "g", "r", "a", "p", "h", ".", "j", "s", "o", "n">>>>
  /\ runs = 1
  /\ InitRun

InitImpactFlows ==
  /\ flowgraph \in {MkDoc(FlowNodes, <<>>, Some(<<FillerFlow, f>>), Some(<<>>)) : f \in FlowUniverse}
  /\ files = (pathA :> Some(<<"x">>))
  /\ verifyArgs \in {<<<<"-", "-", "i", "m", "p", "a", "c", "t">>, q>> : q \in {idA, idGhost}}
  /\ cwd = <<<<"d", ".", "f", "l", "o", "w", "g", "r", "a", "p", "h", ".", "j", "s", "o", "n">>>>
  /\ runs = 1
  /\ InitRun

InitImpactInvariants ==
  /\ flowgraph \in {MkDoc(InvariantNodes, <<>>, None, Some(invs)) : invs \in InvariantLists}
  /\ files = (pathA :> Some(<<"x">>)) @@ (pathB :> Some(<<"x">>))
  /\ verifyArgs \in {<<<<"-", "-", "i", "m", "p", "a", "c", "t">>, q>> : q \in {idA, idGhost}}
  /\ cwd = <<<<"d", ".", "f", "l", "o", "w", "g", "r", "a", "p", "h", ".", "j", "s", "o", "n">>>>
  /\ runs = 1
  /\ InitRun

\* `--impact` as the last argument, or followed by an empty argument
InitBareImpact ==
  /\ flowgraph = MkDoc(FlowNodes, <<FillerEdge>>, Some(<<FillerFlow>>), Some(<<FillerInvariant>>))
  /\ files \in {(pathA :> a) : a \in PlainSources}
  /\ verifyArgs \in {<<<<"-", "-", "i", "m", "p", "a", "c", "t">>>>, <<<<"-", "-", "i", "m", "p", "a", "c", "t">>, <<>>>>}
  /\ cwd = <<<<"d", ".", "f", "l", "o", "w", "g", "r", "a", "p", "h", ".", "j", "s", "o", "n">>>>
  /\ runs = 2
  /\ InitRun

\* documents that vary the loc of one node of a custom kind: paths with and
\* without colons, with and without a numeric last segment
InitLocs ==
  /\ flowgraph \in
       {MkDoc(<<MkEntry(idA, MkNode(<<"j", "o", "b">>, Some(loc), None, None, None))>>, <<>>, None, None) :
          loc \in { <<"a">>, <<"a", ":", "1">>, <<"a", ":", "1", "2">>, <<"a", ":", "b">>, <<"a", ":", "b", ":", "2">>, <<"a", ":", "1", ":", "2">>, <<"a", ":">>, <<":", "3">>, <<"3">>, <<"1", "2">>,
                    <<"a", ":", "0">>, <<"a", ":", "0", "7">>, <<"a", ":", "1", "x">>, <<"a", ":", "x", "1">>, <<"a", ":", ":", "4">>, <<"1", "2", ":", "a">>, <<>> }}
  /\ files \in
       {(pathA :> Some(<<"x">>)) @@ (<<"s", "/", "a", ":", "b">> :> b) @@ (<<"s", "/", "a", ":", "1">> :> c) @@ (<<"s", "/", "3">> :> Some(<<"x">>)) :
          b \in {None, Some(<<"x">>)}, c \in {None, Some(<<"x">>)}}
  /\ verifyArgs = <<>>
  /\ cwd = <<<<"d", ".", "f", "l", "o", "w", "g", "r", "a", "p", "h", ".", "j", "s", "o", "n">>>>
  /\ runs = 1
  /\ InitRun

\* command lines with and without a document path, in working directories
\* that hold no, one or several documents
InitDiscover ==
  /\ flowgraph = MkDoc(FlowNodes, <<FillerEdge>>, None, None)
  /\ files = (pathA :> Some(<<"x">>))
  /\ cwd \in {s \in SeqsOf({<<"a", ".", "f", "l", "o", "w", "g", "r", "a", "p", "h", ".", "j", "s", "o", "n">>, <<"b", ".", "f", "l", "o", "w", "g", "r", "a", "p", "h", ".", "j", "s", "o", "n">>, <<".", "f", "l", "o", "w", "g", "r", "a", "p", "h", ".", "j", "s", "o", "n">>,
                             <<"f", "l", "o", "w", "g", "r", "a", "p", "h", ".", "j", "s", "o", "n">>, <<"a", ".", "f", "l", "o", "w", "g", "r", "a", "p", "h", ".", "j", "s", "o", "n", ".", "b", "a", "k">>}, 0, MaxEntries) :
                \A i, j \in DOMAIN s : i # j => s[i] # s[j]}
  /\ verifyArgs \in {<<>>, <<<<"-", "-", "i", "m", "p", "a", "c", "t">>, idA>>, <<<<"-", "-", "i", "m", "p", "a", "c", "t">>>>, <<<<"-", "-", "i", "m", "p", "a", "c", "t">>, idA, idA>>,
                      <<<<"a", ".", "f", "l", "o", "w", "g", "r", "a", "p", "h", ".", "j", "s", "o", "n">>>>, <<<<"-", "-", "i", "m", "p", "a", "c", "t">>, idA, <<"b", ".", "f", "l", "o", "w", "g", "r", "a", "p", "h", ".", "j", "s", "o", "n">>>>,
                      <<<<"a", ".", "f", "l", "o", "w", "g", "r", "a", "p", "h", ".", "j", "s", "o", "n">>, <<"-", "-", "i", "m", "p", "a", "c", "t">>, idA>>}
  /\ runs = 1
  /\ InitRun

Init ==
  \/ InitEdges \/ InitFlows \/ InitInvariants \/ InitNodes
  \/ InitTableNodes \/ InitTypeNodes
  \/ InitImpactEdges \/ InitImpactFlows \/ InitImpactInvariants \/ InitBareImpact
  \/ InitDiscover \/ InitLocs

\* flowgraph.meta.root || ""
rootOf == flowgraph.meta.root

\* `if (flowgraph.flows)`: an absent table of flows is an empty phase; the
\* flows in the order Object.entries gives them
flowsOf == IF IsSome(flowgraph.flows) THEN objectEntries(Get(flowgraph.flows)) ELSE <<>>

\* `if (flowgraph.invariants)`
invariantsOf == IF IsSome(flowgraph.invariants) THEN Get(flowgraph.invariants) ELSE <<>>

\* the command line names no usable document: resolveFlowgraphPath exits, or
\* returns null and the caller exits
CliExit ==
  /\ pc = "cli"
  /\ LET r == resolveFlowgraphPath(explicitFileOf(verifyArgs), cwd)
     IN /\ r.exit \/ ~IsSome(r.path)
        /\ stderr' = IF r.exit THEN r.err
                      ELSE <<<<"N", "o", " ", "f", "l", "o", "w", "g", "r", "a", "p", "h", " ", "f", "i", "l", "e", " ", "f", "o", "u", "n", "d", ".", " ", "P", "a", "s", "s", " ", "a", " ", "p", "a", "t", "h", " ", "o", "r", " ", "r", "u", "n", " ", Backquote, "f", "l", "o", "w", "g", "r", "a", "p", "h", " ", "i", "n", "i", "t", Backquote, " ", "t", "o", " ", "c", "r", "e", "a", "t", "e", " ", "o", "n", "e", ".">>>>
  /\ exitStatus' = 1
  /\ pc' = "cliExited"
  /\ UNCHANGED <<runs, cwd, flowgraphPath, previous, verifyArgs, report, flowgraph, files, results, idx>>

\* the document is read from the resolved path and the command dispatches:
\* `if (impactNode) runImpactAnalysis(...) else runVerification(...)`
CliLoad ==
  /\ pc = "cli"
  /\ LET r == resolveFlowgraphPath(explicitFileOf(verifyArgs), cwd)
     IN /\ ~r.exit /\ IsSome(r.path)
        /\ flowgraphPath' = r.path
  /\ pc' = IF Truthy(impactNodeOf(verifyArgs)) THEN "impact" ELSE "structural"
  /\ UNCHANGED <<runs, cwd, stderr, previous, verifyArgs, report, flowgraph, files, results, idx, exitStatus>>

\* a variant of Rerun in which the second run goes on with the list the first
\* one filled
Rerun_sameList ==
  /\ pc \in {"exited", "crashed"}
  /\ ~Truthy(impactNodeOf(verifyArgs))
  /\ previous = None
  /\ runs = 2
  /\ previous' = Some([files |-> files, results |-> results])
  /\ pc' = "cli"
  /\ idx' = 1
  /\ exitStatus' = -1
  /\ flowgraphPath' = None
  /\ stderr' = <<>>
  /\ UNCHANGED <<runs, cwd, verifyArgs, report, flowgraph, files, results>>

\* the same command is run again as a new process, on the same document, after
\* file b was changed or removed, or with the source tree as it was
Rerun ==
  /\ pc \in {"exited", "crashed"}
  /\ ~Truthy(impactNodeOf(verifyArgs))
  /\ previous = None
  /\ runs = 2
  /\ previous' = Some([files |-> files, results |-> results])
  /\ files' \in {files} \cup
                 (IF pathB \in DOMAIN files
                  THEN {[files EXCEPT ![pathB] = c] : c \in {None, Some(<<"x">>)}} ELSE {})
  /\ results' = <<>>
  /\ pc' = "cli"
  /\ idx' = 1
  /\ exitStatus' = -1
  /\ flowgraphPath' = None
  /\ stderr' = <<>>
  /\ UNCHANGED <<runs, cwd, verifyArgs, report, flowgraph>>

\* an uncaught TypeError ends the process with status 1
Throw ==
  /\ pc' = "crashed"
  /\ exitStatus' = 1
  /\ UNCHANGED <<runs, cwd, flowgraphPath, stderr, previous, verifyArgs, report, flowgraph, files, results, idx>>

\* a variant of StructuralStep that keeps only the records of the latest node
StructuralStep_overwrite ==
  /\ pc = "structural"
  /\ idx <= Len(flowgraph.nodes)
  /\ IsSome(flowgraph.nodes[idx].node.loc)
  /\ results' = verifyNode(flowgraph.nodes[idx].id, flowgraph.nodes[idx].node, rootOf)
  /\ idx' = idx + 1
  /\ UNCHANGED <<runs, cwd, flowgraphPath, stderr, previous, verifyArgs, report, flowgraph, files, pc, exitStatus>>

\* one iteration of the structural loop
StructuralStep ==
  /\ pc = "structural"
  /\ idx <= Len(flowgraph.nodes)
  /\ IsSome(flowgraph.nodes[idx].node.loc)
  /\ results' = results \o verifyNode(flowgraph.nodes[idx].id, flowgraph.nodes[idx].node, rootOf)
  /\ idx' = idx + 1
  /\ UNCHANGED <<runs, cwd, flowgraphPath, stderr, previous, verifyArgs, report, flowgraph, files, pc, exitStatus>>

\* resolveLoc on a node without loc: `loc.split` of undefined throws
StructuralThrow ==
  /\ pc = "structural"
  /\ idx <= Len(flowgraph.nodes)
  /\ ~IsSome(flowgraph.nodes[idx].node.loc)
  /\ Throw

StructuralDone ==
  /\ pc = "structural"
  /\ idx > Len(flowgraph.nodes)
  /\ pc' = "relational"
  /\ idx' = 1
  /\ UNCHANGED <<runs, cwd, flowgraphPath, stderr, previous, verifyArgs, report, flowgraph, files, results, exitStatus>>

\* `if (edge._comment) continue;`
RelationalSkip ==
  /\ pc = "relational"
  /\ idx <= Len(flowgraph.edges)
  /\ Truthy(flowgraph.edges[idx].comment)
  /\ idx' = idx + 1
  /\ UNCHANGED <<runs, cwd, flowgraphPath, stderr, previous, verifyArgs, report, flowgraph, files, results, pc, exitStatus>>

RelationalStep ==
  /\ pc = "relational"
  /\ idx <= Len(flowgraph.edges)
  /\ ~Truthy(flowgraph.edges[idx].comment)
  /\ results' = results \o verifyEdge(flowgraph.edges[idx], flowgraph.nodes, rootOf)
  /\ idx' = idx + 1
  /\ UNCHANGED <<runs, cwd, flowgraphPath, stderr, previous, verifyArgs, report, flowgraph, files, pc, exitStatus>>

RelationalDone ==
  /\ pc = "relational"
  /\ idx > Len(flowgraph.edges)
  /\ pc' = "flow"
  /\ idx' = 1
  /\ UNCHANGED <<runs, cwd, flowgraphPath, stderr, previous, verifyArgs, report, flowgraph, files, results, exitStatus>>

FlowStep ==
  /\ pc = "flow"
  /\ idx <= Len(flowsOf)
  /\ IsSome(flowsOf[idx].steps)
  /\ results' = results \o verifyFlow(flowsOf[idx].name, flowsOf[idx], flowgraph.nodes)
  /\ idx' = idx + 1
  /\ UNCHANGED <<runs, cwd, flowgraphPath, stderr, previous, verifyArgs, report, flowgraph, files, pc, exitStatus>>

\* `for (const step of flow.steps)` on a flow without steps throws
FlowThrow ==
  /\ pc = "flow"
  /\ idx <= Len(flowsOf)
  /\ ~IsSome(flowsOf[idx].steps)
  /\ Throw

FlowDone ==
  /\ pc = "flow"
  /\ idx > Len(flowsOf)
  /\ pc' = "invariant"
  /\ idx' = 1
  /\ UNCHANGED <<runs, cwd, flowgraphPath, stderr, previous, verifyArgs, report, flowgraph, files, results, exitStatus>>

InvariantStep ==
  /\ pc = "invariant"
  /\ idx <= Len(invariantsOf)
  /\ results' = results \o verifyInvariant(invariantsOf[idx], flowgraph.nodes, rootOf)
  /\ idx' = idx + 1
  /\ UNCHANGED <<runs, cwd, flowgraphPath, stderr, previous, verifyArgs, report, flowgraph, files, pc, exitStatus>>

InvariantDone ==
  /\ pc = "invariant"
  /\ idx > Len(invariantsOf)
  /\ pc' = "aggregate"
  /\ UNCHANGED <<runs, cwd, flowgraphPath, stderr, previous, verifyArgs, report, flowgraph, files, results, idx, exitStatus>>

\* results.filter((r) => r.status === status).length
countOf(status) == Len(SelectSeq(results, LAMBDA r : r.status = status))

\* the summary: `if (fail > 0) process.exit(1)`, else the process ends with 0
exitCodeOf == IF countOf("FAIL") > 0 THEN 1 ELSE 0

Aggregate ==
  /\ pc = "aggregate"
  /\ exitStatus' = exitCodeOf
  /\ pc' = "exited"
  /\ UNCHANGED <<runs, cwd, flowgraphPath, stderr, previous, verifyArgs, report, flowgraph, files, results, idx>>

\* the id asked for
nodeIdOf == Get(impactNodeOf(verifyArgs))

\* the node is not found: the known ids are listed and the process exits 1
ImpactNotFound ==
  /\ pc = "impact"
  /\ ~queryHit(flowgraph.nodes, nodeIdOf)
  /\ report' = [report EXCEPT !.found = Some(FALSE),
                               !.known = Some(sortedKeys(flowgraph.nodes))]
  /\ exitStatus' = 1
  /\ pc' = "impactExited"
  /\ UNCHANGED <<runs, cwd, flowgraphPath, stderr, previous, verifyArgs, flowgraph, files, results, idx>>

\* a variant of ImpactEdges that drops the commented edges from the document
ImpactEdges_inPlace ==
  /\ pc = "impact"
  /\ queryHit(flowgraph.nodes, nodeIdOf)
  /\ LET edges == liveEdges(flowgraph.edges)
          required == requiredLines(edges, nodeIdOf)
     IN report' = [report EXCEPT !.found = Some(TRUE),
                                 !.outgoing = Some(outgoingLines(edges, nodeIdOf)),
                                 !.incoming = Some(incomingLines(edges, nodeIdOf)),
                                 !.required = IF Len(required) > 0 THEN Some(required) ELSE None]
  /\ flowgraph' = [flowgraph EXCEPT !.edges = liveEdges(flowgraph.edges)]
  /\ pc' = "impactFlows"
  /\ UNCHANGED <<runs, cwd, flowgraphPath, stderr, previous, verifyArgs, files, results, idx, exitStatus>>

\* the header and the sections on edges
ImpactEdges ==
  /\ pc = "impact"
  /\ queryHit(flowgraph.nodes, nodeIdOf)
  /\ LET edges == liveEdges(flowgraph.edges)
          required == requiredLines(edges, nodeIdOf)
     IN report' = [report EXCEPT !.found = Some(TRUE),
                                 !.outgoing = Some(outgoingLines(edges, nodeIdOf)),
                                 !.incoming = Some(incomingLines(edges, nodeIdOf)),
                                 !.required = IF Len(required) > 0 THEN Some(required) ELSE None]
  /\ pc' = "impactFlows"
  /\ UNCHANGED <<runs, cwd, flowgraphPath, stderr, previous, verifyArgs, flowgraph, files, results, idx, exitStatus>>

\* the section on flows
ImpactFlows ==
  /\ pc = "impactFlows"
  /\ \A k \in DOMAIN flowsOf : IsSome(flowsOf[k].steps)
  /\ report' = [report EXCEPT !.flows = Some(containingFlowsOf(flowsOf, nodeIdOf))]
  /\ pc' = "impactInvariants"
  /\ UNCHANGED <<runs, cwd, flowgraphPath, stderr, previous, verifyArgs, flowgraph, files, results, idx, exitStatus>>

\* `flow.steps.some` on a flow without steps throws
ImpactFlowsThrow ==
  /\ pc = "impactFlows"
  /\ \E k \in DOMAIN flowsOf : ~IsSome(flowsOf[k].steps)
  /\ Throw

\* the section on invariants; the function returns and the process ends
ImpactInvariants ==
  /\ pc = "impactInvariants"
  /\ report' = [report EXCEPT !.invariants = Some(scopedInvariantsOf(invariantsOf, nodeIdOf))]
  /\ exitStatus' = 0
  /\ pc' = "impactExited"
  /\ UNCHANGED <<runs, cwd, flowgraphPath, stderr, previous, verifyArgs, flowgraph, files, results, idx>>

Next ==
  \/ CliExit
  \/ CliLoad
  \/ Rerun
  \/ StructuralStep
  \/ StructuralThrow
  \/ StructuralDone
  \/ RelationalSkip
  \/ RelationalStep
  \/ RelationalDone
  \/ FlowStep
  \/ FlowThrow
  \/ FlowDone
  \/ InvariantStep
  \/ InvariantDone
  \/ Aggregate
  \/ ImpactNotFound
  \/ ImpactEdges
  \/ ImpactFlows
  \/ ImpactFlowsThrow
  \/ ImpactInvariants

Spec == Init /\ [][Next]_vars

----------------------------------------------------------------------------
(* Properties of the edge verifier and of the exit status *)

\* the records of one category, in the order they were pushed
ByCategory(category) == SelectSeq(results, LAMBDA r : r.category = category)

RelationalRecords == ByCategory("relational")

\* the edges the relational loop hands to verifyEdge, in document order
VerifiedEdges == SelectSeq(flowgraph.edges, LAMBDA e : ~Truthy(e.comment))

\* the relational loop has run to its end
RelationalOver == pc \in {"flow", "invariant", "aggregate", "exited"}

\* the file the `from` node of an edge points to, as read from the source tree
SourceOfEdge(e) == readSource(resolveLoc(Get(NodeAt(flowgraph.nodes, e.from).loc), rootOf).filePath)

\* both endpoints are in the node table and the source file can be read
EdgePrecondition(e) ==
  /\ HasNode(flowgraph.nodes, e.from)
  /\ HasNode(flowgraph.nodes, e.to)
  /\ IsSome(SourceOfEdge(e))

\* the record of the j-th verified edge has the given status
EdgeStatusIs(j, status) ==
  /\ j \in DOMAIN RelationalRecords
  /\ RelationalRecords[j].id = edgeIdOf(VerifiedEdges[j])
  /\ RelationalRecords[j].status = status

\* C1: a verify run ends with exit status 0 if and only if the result list
\* holds no FAIL record, and with status 1 otherwise.
C1_ExitStatusIffNoFail ==
  (exitStatus # -1 /\ ~Truthy(impactNodeOf(verifyArgs))) =>
    /\ exitStatus \in {0, 1}
    /\ (exitStatus = 0) <=> (\A k \in DOMAIN results : results[k].status # "FAIL")

\* C2: a co_change edge whose two ids are in the node table is recorded PASS,
\* whatever the files of its endpoints hold.  It is stated here in the form
\* most favourable to the claim: only for edges whose source file can be read
\* (the precondition of every relation), so that what is left to decide is
\* the content of that file.
C2_CoChangeAlwaysPasses ==
  RelationalOver =>
    \A j \in DOMAIN VerifiedEdges :
      LET e == VerifiedEdges[j]
      IN (EdgePrecondition(e) /\ e.rel = <<"c", "o", "_", "c", "h", "a", "n", "g", "e">>) => EdgeStatusIs(j, "PASS")

\* the record r is the one the claim gives edge e when its precondition fails
PreconditionRecord(e, r) ==
  /\ r.id = edgeIdOf(e)
  /\ IF ~HasNode(flowgraph.nodes, e.from)
     THEN r.status = "FAIL" /\ r.message.tpl = "Source node missing"
     ELSE IF ~HasNode(flowgraph.nodes, e.to)
     THEN r.status = "FAIL" /\ r.message.tpl = "Target node missing"
     ELSE IF ~IsSome(SourceOfEdge(e))
     THEN r.status = "FAIL" /\ r.message.tpl = "Source file not found"
     ELSE TRUE

\* C3 as stated: every edge of the edges list yields exactly one relational
\* record, which is the FAIL of the first failing precondition, if any.
C3_EveryEdgeOneRecord ==
  RelationalOver =>
    /\ Len(RelationalRecords) = Len(flowgraph.edges)
    /\ \A j \in DOMAIN flowgraph.edges :
         j \in DOMAIN RelationalRecords
           => PreconditionRecord(flowgraph.edges[j], RelationalRecords[j])

\* C3 amended: every edge without a `_comment` field yields exactly one
\* relational record (an edge that carries one is skipped and yields none);
\* that record is FAIL 'Source node missing' if `from` is not in the node
\* table, else FAIL 'Target node missing' if `to` is not, else FAIL 'Source
\* file not found' if the file of the `from` node cannot be read, and in these
\* three cases it is the only record of the edge.
C3_EveryVerifiedEdgeOneRecord ==
  RelationalOver =>
    /\ Len(RelationalRecords) = Len(VerifiedEdges)
    /\ \A j \in DOMAIN VerifiedEdges :
         PreconditionRecord(VerifiedEdges[j], RelationalRecords[j])

\* a finished relational phase with an edge whose `from` and `to` are both
\* unknown, recorded as 'Source node missing'
C3_Witness ==
  /\ RelationalOver
  /\ \E j \in DOMAIN VerifiedEdges :
       /\ ~HasNode(flowgraph.nodes, VerifiedEdges[j].from)
       /\ ~HasNode(flowgraph.nodes, VerifiedEdges[j].to)
       /\ RelationalRecords[j].message.tpl = "Source node missing"

\* C4: once the precondition holds, writes / reads / listens edges are PASS
\* with the evidence and WARN without it (never FAIL); calls / emits edges
\* are PASS with the evidence and FAIL without it (never WARN).
C4_StatusFixedByRelation ==
  RelationalOver =>
    \A j \in DOMAIN VerifiedEdges :
      LET e == VerifiedEdges[j]
          src == Get(SourceOfEdge(e))
      IN EdgePrecondition(e) =>
           /\ e.rel \in {<<"w", "r", "i", "t", "e", "s">>, <<"r", "e", "a", "d", "s">>} =>
                EdgeStatusIs(j, IF dbOpFound(e, src) THEN "PASS" ELSE "WARN")
           /\ e.rel = <<"l", "i", "s", "t", "e", "n", "s">> =>
                EdgeStatusIs(j, IF eventFound(e, src) THEN "PASS" ELSE "WARN")
           /\ e.rel = <<"c", "a", "l", "l", "s">> =>
                EdgeStatusIs(j, IF callFound(e, src) THEN "PASS" ELSE "FAIL")
           /\ e.rel = <<"e", "m", "i", "t", "s">> =>
                EdgeStatusIs(j, IF eventFound(e, src) THEN "PASS" ELSE "FAIL")

\* C5: a validates edge whose precondition holds is WARN exactly when the
\* target declares no schema; with a schema it is PASS if the source holds a
\* validation call on that schema and FAIL otherwise.
C5_ValidatesBySchema ==
  RelationalOver =>
    \A j \in DOMAIN VerifiedEdges :
      LET e == VerifiedEdges[j]
          schema == NodeAt(flowgraph.nodes, e.to).schema
      IN (EdgePrecondition(e) /\ e.rel = <<"v", "a", "l", "i", "d", "a", "t", "e", "s">>) =>
           IF ~IsSome(schema)
           THEN EdgeStatusIs(j, "WARN")
           ELSE EdgeStatusIs(j, IF validationFound(Get(schema), Get(SourceOfEdge(e)))
                                THEN "PASS" ELSE "FAIL")

BuiltInRelations ==
  {<<"c", "o", "_", "c", "h", "a", "n", "g", "e">>, <<"v", "a", "l", "i", "d", "a", "t", "e", "s">>, <<"c", "a", "l", "l", "s">>, <<"w", "r", "i", "t", "e", "s">>, <<"r", "e", "a", "d", "s">>, <<"e", "m", "i", "t", "s">>, <<"l", "i", "s", "t", "e", "n", "s">>}

\* C6: an edge of a relation that is not built in is PASS once the
\* precondition holds, whatever the source file holds.
C6_CustomRelationPasses ==
  RelationalOver =>
    \A j \in DOMAIN VerifiedEdges :
      LET e == VerifiedEdges[j]
      IN (EdgePrecondition(e) /\ e.rel \notin BuiltInRelations) => EdgeStatusIs(j, "PASS")

----------------------------------------------------------------------------
(* Properties of the flow verifier *)

FlowRecords == ByCategory("flow")

\* the records pushed for the flow of that name (names are keys: distinct)
RecordsOfFlow(name) == SelectSeq(FlowRecords, LAMBDA r : r.id = name)

ExistenceTemplates == {"All ${flow.steps.length} step nodes exist", "Missing nodes: ${missing}"}

\* the records of the existence check of a flow
ExistenceRecords(name) ==
  SelectSeq(RecordsOfFlow(name), LAMBDA r : r.message.tpl \in ExistenceTemplates)

\* the records of the reachability check of a flow
ReachabilityRecords(name) ==
  SelectSeq(RecordsOfFlow(name), LAMBDA r : r.message.tpl \notin ExistenceTemplates)

\* the i-th flow has a step list and the flow loop is past it
FlowVerified(i) ==
  /\ IsSome(flowsOf[i].steps)
  /\ \/ pc = "flow" /\ idx > i
     \/ pc \in {"invariant", "aggregate", "exited"}

\* the entries (step k, entry m) of the branch mappings of a step list
BranchEntries(steps) ==
  UNION {{<<k, m>> : m \in DOMAIN steps[k].then.br} :
           k \in {k \in DOMAIN steps : IsBranch(steps[k].then)}}

TargetOf(steps, km) == steps[km[1]].then.br[km[2]].target

CondOf(steps, km) == steps[km[1]].then.br[km[2]].cond

IsTerminalWord(target) == target \in {<<"n", "e", "x", "t">>, <<"D", "O", "N", "E">>, <<"F", "A", "I", "L">>}

\* the step node ids and non-terminal branch targets missing from the node table
AbsentIds(steps) ==
  {steps[k].node : k \in {k \in DOMAIN steps : ~HasNode(flowgraph.nodes, steps[k].node)}}
  \cup {TargetOf(steps, km) :
          km \in {km \in BranchEntries(steps) :
                    /\ ~IsTerminalWord(TargetOf(steps, km))
                    /\ ~HasNode(flowgraph.nodes, TargetOf(steps, km))}}

\* C7: the existence check of a flow gives exactly one record: FAIL, its
\* message listing every absent id, if a step node or a non-terminal branch
\* target is missing from the node table, and PASS otherwise.
C7_FlowExistence ==
  \A i \in DOMAIN flowsOf :
    FlowVerified(i) =>
      LET steps == Get(flowsOf[i].steps)
          ex == ExistenceRecords(flowsOf[i].name)
      IN /\ Len(ex) = 1
         /\ IF AbsentIds(steps) # {}
            THEN /\ ex[1].status = "FAIL"
                 /\ Len(ex[1].message.args) = 1
                 /\ \A a \in AbsentIds(steps) : Includes(ex[1].message.args[1], a)
            ELSE ex[1].status = "PASS"

\* a verified flow in which a step node and a branch target are both absent
\* from the node table, with its FAIL record
C7_Witness ==
  \E i \in DOMAIN flowsOf :
    /\ FlowVerified(i)
    /\ \E k \in DOMAIN Get(flowsOf[i].steps) :
         ~HasNode(flowgraph.nodes, Get(flowsOf[i].steps)[k].node)
    /\ \E km \in BranchEntries(Get(flowsOf[i].steps)) :
         /\ ~IsTerminalWord(TargetOf(Get(flowsOf[i].steps), km))
         /\ ~HasNode(flowgraph.nodes, TargetOf(Get(flowsOf[i].steps), km))
    /\ ExistenceRecords(flowsOf[i].name)[1].status = "FAIL"

\* the branch entries with a non-terminal target that is the node of no step
\* among those of `among(k)`, k being the branching step
UnreachableEntries(steps, among(_)) ==
  {km \in BranchEntries(steps) :
     /\ ~IsTerminalWord(TargetOf(steps, km))
     /\ ~\E k \in among(km[1]) : steps[k].node = TargetOf(steps, km)}

\* the reachability records of a flow are one WARN per entry of `bad`, naming
\* its label and target, and a single PASS exactly when `bad` is empty
ReachabilityMatches(name, steps, bad) ==
  LET rr == ReachabilityRecords(name)
      warns == SelectSeq(rr, LAMBDA r : r.status = "WARN")
      passes == SelectSeq(rr, LAMBDA r : r.status = "PASS")
  IN /\ Len(warns) + Len(passes) = Len(rr)
     /\ Len(warns) = Cardinality(bad)
     /\ \A km \in bad :
          \E w \in DOMAIN warns :
            warns[w].message.args = <<CondOf(steps, km), TargetOf(steps, km)>>
     /\ Len(passes) = IF bad = {} THEN 1 ELSE 0

\* a branch target that is in the node table but is no step of the flow does
\* not make the existence check fail
KnownTargetsDoNotFail(name, steps) ==
  AbsentIds(steps) = {} => ExistenceRecords(name)[1].status = "PASS"

\* C8 as stated: one WARN per branch entry whose non-terminal target is not
\* the node of some OTHER step of the flow, a single PASS when there is none.
C8_ReachabilityOtherStep ==
  \A i \in DOMAIN flowsOf :
    FlowVerified(i) =>
      LET steps == Get(flowsOf[i].steps)
          others(k) == (DOMAIN steps) \ {k}
      IN /\ ReachabilityMatches(flowsOf[i].name, steps, UnreachableEntries(steps, others))
         /\ KnownTargetsDoNotFail(flowsOf[i].name, steps)

\* C8 amended: one WARN per branch entry whose non-terminal target is not the
\* node of ANY step of the flow, the branching step itself included, and a
\* single PASS exactly when there is no such entry; the check looks at the
\* flow's own steps only, so a target that is in the node table but is no
\* step gives a WARN without making the existence check fail.
C8_ReachabilityAnyStep ==
  \A i \in DOMAIN flowsOf :
    FlowVerified(i) =>
      LET steps == Get(flowsOf[i].steps)
          all(k) == DOMAIN steps
      IN /\ ReachabilityMatches(flowsOf[i].name, steps, UnreachableEntries(steps, all))
         /\ KnownTargetsDoNotFail(flowsOf[i].name, steps)

\* a verified flow with a step that branches to its own node, a node no other
\* step has, and whose reachability check passed; and one whose only
\* unreachable target is a known node, which got existence PASS and one WARN
C8_Witness ==
  /\ \E i \in DOMAIN flowsOf :
       /\ FlowVerified(i)
       /\ \E km \in BranchEntries(Get(flowsOf[i].steps)) :
            /\ TargetOf(Get(flowsOf[i].steps), km) = Get(flowsOf[i].steps)[km[1]].node
            /\ \A k \in (DOMAIN Get(flowsOf[i].steps)) \ {km[1]} :
                 Get(flowsOf[i].steps)[k].node # TargetOf(Get(flowsOf[i].steps), km)
       /\ Len(ReachabilityRecords(flowsOf[i].name)) = 1
       /\ ReachabilityRecords(flowsOf[i].name)[1].status = "PASS"

\* a verified flow whose only unreachable target is a node of the node table:
\* existence PASS and one reachability WARN
C8_WitnessKnownTarget ==
  \E i \in DOMAIN flowsOf :
    /\ FlowVerified(i)
    /\ \E km \in BranchEntries(Get(flowsOf[i].steps)) :
         /\ HasNode(flowgraph.nodes, TargetOf(Get(flowsOf[i].steps), km))
         /\ ~inSteps(Get(flowsOf[i].steps), TargetOf(Get(flowsOf[i].steps), km))
    /\ ExistenceRecords(flowsOf[i].name)[1].status = "PASS"
    /\ Len(ReachabilityRecords(flowsOf[i].name)) = 1
    /\ ReachabilityRecords(flowsOf[i].name)[1].status = "WARN"

\* no step of the list has a branch mapping as `then`
NoBranch(steps) == \A k \in DOMAIN steps : ~IsBranch(steps[k].then)

\* the single PASS of the reachability check
ReachabilityPassed(name) ==
  /\ Len(ReachabilityRecords(name)) = 1
  /\ ReachabilityRecords(name)[1].status = "PASS"

\* C9 as stated: a flow without branching steps gets PASS on the existence
\* check and PASS on the reachability check.
C9_NoBranchPassesBoth ==
  \A i \in DOMAIN flowsOf :
    (FlowVerified(i) /\ NoBranch(Get(flowsOf[i].steps))) =>
      /\ Len(ExistenceRecords(flowsOf[i].name)) = 1
      /\ ExistenceRecords(flowsOf[i].name)[1].status = "PASS"
      /\ ReachabilityPassed(flowsOf[i].name)

\* C9 amended: a flow without branching steps gets PASS on the reachability
\* check, and on the existence check PASS if every step's node id is in the
\* node table and FAIL otherwise.
C9_NoBranchPassesReachability ==
  \A i \in DOMAIN flowsOf :
    (FlowVerified(i) /\ NoBranch(Get(flowsOf[i].steps))) =>
      LET steps == Get(flowsOf[i].steps)
          known == \A k \in DOMAIN steps : HasNode(flowgraph.nodes, steps[k].node)
      IN /\ Len(ExistenceRecords(flowsOf[i].name)) = 1
         /\ ExistenceRecords(flowsOf[i].name)[1].status = IF known THEN "PASS" ELSE "FAIL"
         /\ ReachabilityPassed(flowsOf[i].name)

\* a verified flow of known nodes without branching steps, one of them a jump
\* to an id the node table does not have, that passed both checks
C9_Witness ==
  \E i \in DOMAIN flowsOf :
    /\ FlowVerified(i)
    /\ NoBranch(Get(flowsOf[i].steps))
    /\ \E k \in DOMAIN Get(flowsOf[i].steps) :
         Get(flowsOf[i].steps)[k].then = ThenStr(idGhost)
    /\ ExistenceRecords(flowsOf[i].name)[1].status = "PASS"
    /\ ReachabilityPassed(flowsOf[i].name)

----------------------------------------------------------------------------
(* Properties of the invariant verifier *)

InvariantRecords == ByCategory("invariant")

\* the invariant loop has run to its end
InvariantOver == pc \in {"aggregate", "exited"}

\* the file a scoped node points to, as read from the source tree
SourceOfNode(id) == readSource(resolveLoc(Get(NodeAt(flowgraph.nodes, id).loc), rootOf).filePath)

\* C10: every invariant yields exactly one record, never PASS: FAIL listing
\* the missing ids if an id of `scope` is not in the node table; otherwise
\* FAIL 'scoped files not found' if the file of a scoped node cannot be read;
\* otherwise WARN carrying the rule text and the `enforce` note.
C10_InvariantOutcome ==
  InvariantOver =>
    /\ Len(InvariantRecords) = Len(invariantsOf)
    /\ \A j \in DOMAIN invariantsOf :
         LET inv == invariantsOf[j]
             r == InvariantRecords[j]
             scope == Range(scopeOf(inv))
             missing == {s \in scope : ~HasNode(flowgraph.nodes, s)}
         IN /\ r.id = inv.id
            /\ r.status # "PASS"
            /\ IF missing # {}
               THEN /\ r.status = "FAIL"
                    /\ r.message.tpl = "Scoped nodes missing: ${missingNodes}"
                    /\ \A m \in missing : Includes(r.message.args[1], m)
               ELSE IF \E s \in scope : ~IsSome(SourceOfNode(s))
               THEN r.status = "FAIL" /\ r.message.tpl = "Some scoped files not found"
               ELSE /\ r.status = "WARN"
                    /\ r.message.args[1] = inv.rule
                    /\ IsSome(inv.enforce) => Includes(r.message.args[2], Get(inv.enforce))

----------------------------------------------------------------------------
(* Properties of the invariant verifier: the scope *)

\* C11: an invariant gets the WARN record (its scope counted as verified)
\* only if its `scope` is present, not empty, and names only nodes of the
\* node table.
C11_WarnOnlyWithScope ==
  InvariantOver =>
    \A j \in DOMAIN invariantsOf :
      (j \in DOMAIN InvariantRecords /\ InvariantRecords[j].status = "WARN") =>
        /\ IsSome(invariantsOf[j].scope)
        /\ Len(Get(invariantsOf[j].scope)) > 0
        /\ \A k \in DOMAIN Get(invariantsOf[j].scope) :
             HasNode(flowgraph.nodes, Get(invariantsOf[j].scope)[k])

----------------------------------------------------------------------------
(* Properties of impact analysis *)

\* the command line carries the `--impact` flag
ImpactFlag == \E k \in DOMAIN verifyArgs : verifyArgs[k] = <<"-", "-", "i", "m", "p", "a", "c", "t">>

\* the run is an impact query (it has an id to ask for)
ImpactRun == Truthy(impactNodeOf(verifyArgs))

\* an impact query has ended, by exit or by an uncaught error
ImpactOver == ImpactRun /\ pc \in {"impactExited", "crashed"}

\* the ids that are keys of the node table
NodeKeys == {flowgraph.nodes[k].id : k \in DOMAIN flowgraph.nodes}

\* the 'not found' outcome: every known id listed, status 1, no section on
\* edges, flows or invariants
NotFoundOutcome ==
  /\ report.found = Some(FALSE)
  /\ IsSome(report.known)
  /\ Range(Get(report.known)) = NodeKeys
  /\ exitStatus = 1
  /\ report.outgoing = None /\ report.incoming = None /\ report.required = None
  /\ report.flows = None /\ report.invariants = None

\* a successful result with every section empty
EmptyOutcome ==
  /\ report.found = Some(TRUE)
  /\ report.outgoing = Some(<<>>) /\ report.incoming = Some(<<>>)
  /\ report.flows = Some(<<>>) /\ report.invariants = Some(<<>>)
  /\ exitStatus = 0

\* the id is mentioned by no edge, no flow step and no invariant scope
Unmentioned(id) ==
  /\ \A k \in DOMAIN flowgraph.edges :
       flowgraph.edges[k].from # id /\ flowgraph.edges[k].to # id
  /\ \A k \in DOMAIN flowsOf :
       IsSome(flowsOf[k].steps) =>
         \A m \in DOMAIN Get(flowsOf[k].steps) :
           LET s == Get(flowsOf[k].steps)[m]
           IN /\ s.node # id
              /\ IsBranch(s.then) => \A b \in DOMAIN s.then.br : s.then.br[b].target # id
  /\ \A k \in DOMAIN invariantsOf :
       \A m \in DOMAIN scopeOf(invariantsOf[k]) : scopeOf(invariantsOf[k])[m] # id

\* C12: an impact query ends in the 'not found' outcome if and only if the id
\* asked for is not a key of the node table; a known id that nothing
\* mentions gives a successful empty result with exit status 0.
C12_NotFoundIffUnknown ==
  ImpactOver =>
    /\ NotFoundOutcome <=> nodeIdOf \notin NodeKeys
    /\ (nodeIdOf \in NodeKeys /\ Unmentioned(nodeIdOf)
        /\ \A k \in DOMAIN flowsOf : IsSome(flowsOf[k].steps)) => EmptyOutcome

\* the edges of the list es that leave id / that enter id, in document order
EdgesFrom(es, id) == SelectSeq(es, LAMBDA e : e.from = id)
EdgesTo(es, id) == SelectSeq(es, LAMBDA e : e.to = id)

\* the printed lines are exactly the given edges, in order, each naming the
\* node at the other end, and flagged exactly when the relation is co_change
LinesAre(lines, es, out) ==
  /\ Len(lines) = Len(es)
  /\ \A k \in DOMAIN es :
       /\ k \in DOMAIN lines
       /\ lines[k].rel = es[k].rel
       /\ lines[k].peer = (IF out THEN es[k].to ELSE es[k].from)
       /\ lines[k].marker <=> (es[k].rel = <<"c", "o", "_", "c", "h", "a", "n", "g", "e">>)

\* the sections on edges of a query on a known id have been printed
EdgesReported == ImpactRun /\ nodeIdOf \in NodeKeys /\ IsSome(report.outgoing)

\* C13 as stated: for a known id, the outgoing list is exactly the edges of
\* the document with from = id and the incoming list exactly those with
\* to = id, a co_change edge being flagged in both.
C13_DirectEdgesOfDocument ==
  EdgesReported =>
    /\ LinesAre(Get(report.outgoing), EdgesFrom(flowgraph.edges, nodeIdOf), TRUE)
    /\ LinesAre(Get(report.incoming), EdgesTo(flowgraph.edges, nodeIdOf), FALSE)

\* the edges of the document that carry no `_comment`
UncommentedEdges == SelectSeq(flowgraph.edges, LAMBDA e : ~Truthy(e.comment))

\* C13 amended: for a known id, the outgoing list is exactly the edges
\* without a `_comment` that have from = id and the incoming list exactly
\* those that have to = id (an edge that carries a `_comment` is listed in
\* neither); a co_change edge is flagged in both lists, and nothing else is
\* listed, so no edge two or more hops away.
C13_DirectUncommentedEdges ==
  EdgesReported =>
    /\ LinesAre(Get(report.outgoing), EdgesFrom(UncommentedEdges, nodeIdOf), TRUE)
    /\ LinesAre(Get(report.incoming), EdgesTo(UncommentedEdges, nodeIdOf), FALSE)

\* a query on job:a with a chain job:a -> job:b -> method:G in the document:
\* job:b is listed as outgoing and the edge from job:b is listed nowhere
C13_Witness ==
  /\ EdgesReported
  /\ nodeIdOf = idA
  /\ \E i, j \in DOMAIN flowgraph.edges :
       /\ flowgraph.edges[i].from = idA /\ flowgraph.edges[i].to = idB
       /\ flowgraph.edges[i].rel = <<"c", "o", "_", "c", "h", "a", "n", "g", "e">> /\ ~Truthy(flowgraph.edges[i].comment)
       /\ flowgraph.edges[j].from = idB /\ flowgraph.edges[j].to = idGhost
  /\ Len(Get(report.outgoing)) = 1
  /\ Get(report.outgoing)[1].marker
  /\ Get(report.incoming) = <<>>

\* the id is the node of a step of the flow or a branch target value of one
MentionedInFlow(f, id) ==
  /\ IsSome(f.steps)
  /\ \E m \in DOMAIN Get(f.steps) :
       LET s == Get(f.steps)[m]
       IN \/ s.node = id
          \/ IsBranch(s.then) /\ \E b \in DOMAIN s.then.br : s.then.br[b].target = id

\* the flow of that name is listed in the report
FlowListed(name) ==
  IsSome(report.flows) /\ \E k \in DOMAIN Get(report.flows) : Get(report.flows)[k].name = name

\* the invariant of that id is listed in the report
InvariantListed(id) ==
  IsSome(report.invariants)
  /\ \E k \in DOMAIN Get(report.invariants) : Get(report.invariants)[k].id = id

\* C14: for a query on a known id, a flow is listed if and only if the id is
\* the node of one of its steps or a branch target value of one of its steps,
\* and an invariant is listed if and only if its scope contains the id.
C14_FlowsAndInvariantsListed ==
  (ImpactOver /\ nodeIdOf \in NodeKeys) =>
    /\ \A k \in DOMAIN flowsOf :
         FlowListed(flowsOf[k].name) <=> MentionedInFlow(flowsOf[k], nodeIdOf)
    /\ \A k \in DOMAIN invariantsOf :
         InvariantListed(invariantsOf[k].id)
           <=> \E m \in DOMAIN scopeOf(invariantsOf[k]) : scopeOf(invariantsOf[k])[m] = nodeIdOf

\* C15: when `verify` is invoked with the `--impact` flag no verification
\* phase runs and no record is ever appended to the result list.
C15_ImpactFlagNoVerification ==
  ImpactFlag =>
    /\ results = <<>>
    /\ pc \notin {"relational", "flow", "invariant", "aggregate", "exited"}

----------------------------------------------------------------------------
(* Properties of the run as a whole and of the node verifiers *)

\* the run is a verification (no impact query was asked for)
VerifyRun == ~Truthy(impactNodeOf(verifyArgs))

\* some record names the given id in the given category
HasRecord(category, id) ==
  \E k \in DOMAIN results : results[k].category = category /\ results[k].id = id

\* C16: no verifier aborts a verification: the run never ends on an uncaught
\* error, also when a node lacks `loc`, a flow lacks `steps` or a file is
\* missing, and once it is at the aggregator every node, every edge (stated
\* here for the edges the relational loop does not skip), every flow and
\* every invariant has at least one record.
C16_NoVerifierAborts ==
  VerifyRun =>
    /\ pc # "crashed"
    /\ pc \in {"aggregate", "exited"} =>
         /\ \A k \in DOMAIN flowgraph.nodes : HasRecord("structural", flowgraph.nodes[k].id)
         /\ \A k \in DOMAIN VerifiedEdges : HasRecord("relational", edgeIdOf(VerifiedEdges[k]))
         /\ \A k \in DOMAIN flowsOf : HasRecord("flow", flowsOf[k].name)
         /\ \A k \in DOMAIN invariantsOf : HasRecord("invariant", invariantsOf[k].id)

BuiltInKinds == {<<"t", "y", "p", "e">>, <<"m", "e", "t", "h", "o", "d">>, <<"t", "a", "b", "l", "e">>, <<"e", "n", "d", "p", "o", "i", "n", "t">>, <<"e", "v", "e", "n", "t">>}

\* the structural records of one node, in the order they were pushed
StructuralOf(id) == SelectSeq(ByCategory("structural"), LAMBDA r : r.id = id)

\* the structural loop has run to its end
StructuralOver == VerifyRun /\ pc \in {"relational", "flow", "invariant", "aggregate", "exited"}

\* C17: a node of a kind that is not built in yields exactly one structural
\* record: PASS if its file can be read, whatever it holds, FAIL otherwise.
C17_CustomKindFileOnly ==
  StructuralOver =>
    \A k \in DOMAIN flowgraph.nodes :
      LET id == flowgraph.nodes[k].id
      IN flowgraph.nodes[k].node.kind \notin BuiltInKinds =>
           /\ Len(StructuralOf(id)) = 1
           /\ StructuralOf(id)[1].status = (IF IsSome(SourceOfNode(id)) THEN "PASS" ELSE "FAIL")

\* sub occurs in s at position i, letters compared without regard to case
CIAt(s, sub, i) ==
  /\ i >= 1
  /\ i + Len(sub) - 1 <= Len(s)
  /\ \A k \in 1..Len(sub) : LowerOf(s[i + k - 1]) = LowerOf(sub[k])

\* positions i..(j - 1) of s are a non-empty run of white space
SpaceRun(s, i, j) == i < j /\ j <= Len(s) + 1 /\ \A k \in i..(j - 1) : s[k] \in SpaceChars

\* the name stands at position p of s and no word character follows it
NamedAt(s, name, p) ==
  /\ CIAt(s, name, p)
  /\ p + Len(name) > Len(s) \/ ~IsWordChar(s[p + Len(name)])

\* the text holds CREATE TABLE, optionally IF NOT EXISTS, and then the name,
\* separated by white space, in any letter case
ContainsCreateTable(s, name) ==
  \E i \in 1..Len(s) :
    /\ CIAt(s, <<"c", "r", "e", "a", "t", "e", " ", "t", "a", "b", "l", "e">>, i)
    /\ \E j \in (i + 13)..(Len(s) + 1) :
         /\ SpaceRun(s, i + 12, j)
         /\ \/ NamedAt(s, name, j)
            \/ /\ CIAt(s, <<"i", "f", " ", "n", "o", "t", " ", "e", "x", "i", "s", "t", "s">>, j)
               /\ \E k \in (j + 14)..(Len(s) + 1) :
                    SpaceRun(s, j + 13, k) /\ NamedAt(s, name, k)

\* the identifier of a table node: its id without the prefix `table:`
TableNameOf(id) == SubSeq(id, 7, Len(id))

\* C18: the existence result of a table node is PASS if and only if its file
\* holds a case-insensitive CREATE TABLE (optionally IF NOT EXISTS) naming
\* the identifier of the node, and FAIL otherwise, with or without a line
\* number in `loc`.
C18_TableExistence ==
  StructuralOver =>
    \A k \in DOMAIN flowgraph.nodes :
      LET id == flowgraph.nodes[k].id
          src == SourceOfNode(id)
      IN flowgraph.nodes[k].node.kind = <<"t", "a", "b", "l", "e">> =>
           /\ Len(StructuralOf(id)) >= 1
           /\ StructuralOf(id)[1].status =
                (IF IsSome(src) /\ ContainsCreateTable(Get(src), TableNameOf(id))
                 THEN "PASS" ELSE "FAIL")

\* a table node with a line number whose file holds the statement in another
\* letter case with IF NOT EXISTS, recorded PASS
C18_Witness ==
  /\ StructuralOver
  /\ \E k \in DOMAIN flowgraph.nodes :
       /\ flowgraph.nodes[k].node.kind = <<"t", "a", "b", "l", "e">>
       /\ IsSome(resolveLoc(Get(flowgraph.nodes[k].node.loc), rootOf).line)
       /\ IsSome(SourceOfNode(flowgraph.nodes[k].id))
       /\ Includes(Get(SourceOfNode(flowgraph.nodes[k].id)), <<"I", "f", " ", "N", "o", "t", " ", "E", "x", "i", "s", "t", "s">>)
       /\ StructuralOf(flowgraph.nodes[k].id)[1].status = "PASS"

\* the records of the optional-field checks, by the message they carry
SchemaTemplate == "Schema '${node.schema}' not found"
ValueTemplate == "Enum value '${val}' not found"
FkTemplate == "FK to '${match[1]}' not in DDL"
OptionalTemplates == {SchemaTemplate, ValueTemplate, FkTemplate}

\* C19 as stated: no optional-field check of any node kind records WARN; the
\* record for missing evidence of `values`, `schema` or `fk` is FAIL.
C19_OptionalNeverWarn ==
  StructuralOver =>
    \A k \in DOMAIN results :
      (results[k].category = "structural" /\ results[k].message.tpl \in OptionalTemplates)
        => results[k].status = "FAIL"

\* how many records of the sequence carry that message and that status
CountOf(rs, tpl, status) ==
  Cardinality({k \in DOMAIN rs : rs[k].message.tpl = tpl /\ rs[k].status = status})

\* the entries of a list of values that the text does not hold
MissingValues(values, src) == {k \in DOMAIN values : ~Includes(src, values[k])}

\* the entries of an fk list that name a table (`-> name`) the text does not hold
MissingFks(fks, src) ==
  {k \in DOMAIN fks : IsSome(fkMatch(fks[k])) /\ ~Includes(src, Get(fkMatch(fks[k])))}

\* C19 amended: once the existence check of a type node has not failed, every
\* declared `schema` and every entry of `values` whose text is missing from
\* the file gets one FAIL record, never WARN; once the existence check of a
\* table node has passed, every `fk` entry of the form `-> name` whose name
\* is missing from the file gets one WARN record, never FAIL.  No other
\* optional-field record is pushed.
C19_OptionalStatusByField ==
  StructuralOver =>
    \A k \in DOMAIN flowgraph.nodes :
      LET id == flowgraph.nodes[k].id
          node == flowgraph.nodes[k].node
          rs == StructuralOf(id)
          src == Get(SourceOfNode(id))
          optional == SelectSeq(rs, LAMBDA r : r.message.tpl \in OptionalTemplates)
          values == IF IsSome(node.values) THEN Get(node.values) ELSE <<>>
          fks == IF IsSome(node.fk) THEN Get(node.fk) ELSE <<>>
          schemaMissing == IF Truthy(node.schema) /\ ~Includes(src, Get(node.schema)) THEN 1 ELSE 0
      IN /\ (node.kind = <<"t", "y", "p", "e">> /\ rs[1].status # "FAIL") =>
              /\ CountOf(rs, SchemaTemplate, "FAIL") = schemaMissing
              /\ CountOf(rs, ValueTemplate, "FAIL") = Cardinality(MissingValues(values, src))
              /\ Len(optional) = schemaMissing + Cardinality(MissingValues(values, src))
         /\ (node.kind = <<"t", "a", "b", "l", "e">> /\ rs[1].status = "PASS") =>
              /\ CountOf(rs, FkTemplate, "WARN") = Cardinality(MissingFks(fks, src))
              /\ Len(optional) = Cardinality(MissingFks(fks, src))
         /\ (rs[1].status = "FAIL" \/ node.kind \notin {<<"t", "y", "p", "e">>, <<"t", "a", "b", "l", "e">>}) => Len(optional) = 0

\* a table node found in its file, with two fk entries of which exactly one
\* names a table the file does not hold: one WARN record after the PASS
C19_Witness ==
  /\ StructuralOver
  /\ \E k \in DOMAIN flowgraph.nodes :
       LET node == flowgraph.nodes[k].node
           rs == StructuralOf(flowgraph.nodes[k].id)
       IN /\ node.kind = <<"t", "a", "b", "l", "e">>
          /\ IsSome(node.fk) /\ Len(Get(node.fk)) = 2
          /\ Len(rs) = 2
          /\ rs[1].status = "PASS"
          /\ rs[2].status = "WARN" /\ rs[2].message.tpl = FkTemplate

\* the evidence the verifier of a built-in kind looks for, sought in `text`
EvidenceIn(id, kind, text) ==
  IF kind = <<"t", "y", "p", "e">> THEN someHas(text, typePatterns(Replace(id, <<"t", "y", "p", "e", ":">>, <<>>)))
  ELSE IF kind = <<"m", "e", "t", "h", "o", "d">>
    THEN someHas(text, methodPatterns(Last(Split(Replace(id, <<"m", "e", "t", "h", "o", "d", ":">>, <<>>), "."))))
  ELSE IF kind = <<"t", "a", "b", "l", "e">> THEN ContainsCreateTable(text, TableNameOf(id))
  ELSE IF kind = <<"e", "v", "e", "n", "t">> THEN Includes(text, Replace(id, <<"e", "v", "e", "n", "t", ":">>, <<>>))
  ELSE LET endpointStr == Replace(id, <<"e", "n", "d", "p", "o", "i", "n", "t", ":">>, <<>>)
           spaceIdx == IndexOf(endpointStr, <<" ">>)
       IN IF spaceIdx = 0 THEN Includes(text, endpointStr)
          ELSE someHas(text, routePatterns(ToLowerCase(SubSeq(endpointStr, 1, spaceIdx - 1)),
                                           SubSeq(endpointStr, spaceIdx + 1, Len(endpointStr))))

\* the window a kind is given around its line
RadiusOf(kind) ==
  IF kind \in {<<"t", "y", "p", "e">>, <<"m", "e", "t", "h", "o", "d">>} THEN TypeMethodRadius
  ELSE IF kind = <<"e", "n", "d", "p", "o", "i", "n", "t">> THEN EndpointRadius
  ELSE DefaultRadius

\* lines line - radius .. line + radius of `text`, counted from 1
LinesAround(text, line, radius) ==
  LET lines == Split(text, "\n")
  IN Join(SubSeq(lines, Max(1, line - radius), Min(Len(lines), line + radius)), <<"\n">>)

\* the node supplies a line, and its evidence is in the file but not near it
OutsideWindow(id, node) ==
  /\ node.kind \in BuiltInKinds
  /\ IsSome(node.loc)
  /\ LET r == resolveLoc(Get(node.loc), rootOf)
         source == readSource(r.filePath)
     IN /\ IsSome(r.line) /\ Get(r.line) >= 1
        /\ IsSome(source)
        /\ EvidenceIn(id, node.kind, Get(source))
        /\ ~EvidenceIn(id, node.kind, LinesAround(Get(source), Get(r.line), RadiusOf(node.kind)))

\* C20: a node of a built-in kind that supplies a line, whose evidence is in
\* its file but outside the window around that line, gets WARN as its
\* existence result.
C20_OutsideWindowWarns ==
  StructuralOver =>
    \A k \in DOMAIN flowgraph.nodes :
      LET id == flowgraph.nodes[k].id
      IN OutsideWindow(id, flowgraph.nodes[k].node) =>
           /\ Len(StructuralOf(id)) >= 1
           /\ StructuralOf(id)[1].status = "WARN"


----------------------------------------------------------------------------
(* Two runs of the same command *)

\* a second verification run has ended, by exit or by an uncaught error
SecondRunOver == IsSome(previous) /\ pc \in {"exited", "crashed"}

\* the source tree of the second run is the one of the first
SameTree == Get(previous).files = files

----------------------------------------------------------------------------
(* The command line *)

\* s ends with suffix
EndsWith(s, suffix) ==
  Len(s) >= Len(suffix) /\ SubSeq(s, Len(s) - Len(suffix) + 1, Len(s)) = suffix

\* the command line holds nothing but options and the id that follows the
\* first `--impact`
NoFileArgument ==
  \A k \in DOMAIN verifyArgs :
    \/ (Len(verifyArgs[k]) >= 2 /\ SubSeq(verifyArgs[k], 1, 2) = <<"-", "-">>)
    \/ (k > 1 /\ verifyArgs[k - 1] = <<"-", "-", "i", "m", "p", "a", "c", "t">>
              /\ \A j \in 1..(k - 2) : verifyArgs[j] # <<"-", "-", "i", "m", "p", "a", "c", "t">>)

\* the entries of the working directory named *.flowgraph.json
Candidates == SelectSeq(cwd, LAMBDA e : EndsWith(e, <<".", "f", "l", "o", "w", "g", "r", "a", "p", "h", ".", "j", "s", "o", "n">>))

\* the command has left the command-line stage
CliOver == pc # "cli"

\* the command ended in the command-line stage with status 1 and no record
CliError == pc = "cliExited" /\ exitStatus = 1 /\ results = <<>> /\ Len(stderr) > 0

\* C22: without a file argument, the only *.flowgraph.json entry of the
\* working directory is the document used; with none the command errors with
\* status 1; with several it lists the candidates and exits with status 1;
\* in both error cases no verification phase runs.
C22_AutoDiscovery ==
  (CliOver /\ NoFileArgument) =>
    /\ Len(Candidates) = 1 => (pc # "cliExited" /\ flowgraphPath = Some(Candidates[1]))
    /\ Len(Candidates) = 0 => CliError
    /\ Len(Candidates) > 1 =>
         /\ CliError
         /\ \A k \in DOMAIN Candidates :
              \E m \in DOMAIN stderr : Includes(stderr[m], Candidates[k])

\* several candidates next to entries that are none, and the command ended
C22_Witness ==
  /\ CliOver /\ NoFileArgument
  /\ Len(Candidates) > 1 /\ Len(Candidates) < Len(cwd)
  /\ pc = "cliExited"

----------------------------------------------------------------------------
(* The order of the result list *)

\* the place of a category in the order of the phases
PhaseRank(category) ==
  CASE category = "structural" -> 1
    [] category = "relational" -> 2
    [] category = "flow" -> 3
    [] category = "invariant" -> 4

\* the place of a key in a table of the document, as written
PlaceOf(table, key(_), id) == CHOOSE k \in DOMAIN table : key(table[k]) = id

\* the tables of the document as written, before any reordering
FlowsAsWritten == IF IsSome(flowgraph.flows) THEN Get(flowgraph.flows) ELSE <<>>

\* the records of the existence check of a flow
IsExistenceRecord(r) ==
  r.message.tpl \in {"All ${flow.steps.length} step nodes exist", "Missing nodes: ${missing}"}

\* C23: in the result list every structural record precedes every relational
\* record, these every flow record, these every invariant record; within a
\* phase the records follow the document order of nodes, edges, flows and
\* invariants; for each flow its existence record precedes its reachability
\* records.
C23_ResultOrder ==
  /\ \A i, j \in DOMAIN results :
       i < j =>
         /\ PhaseRank(results[i].category) <= PhaseRank(results[j].category)
         /\ (results[i].category = results[j].category) =>
              CASE results[i].category = "structural" ->
                     PlaceOf(flowgraph.nodes, LAMBDA n : n.id, results[i].id)
                       <= PlaceOf(flowgraph.nodes, LAMBDA n : n.id, results[j].id)
                [] results[i].category = "flow" ->
                     /\ PlaceOf(FlowsAsWritten, LAMBDA f : f.name, results[i].id)
                          <= PlaceOf(FlowsAsWritten, LAMBDA f : f.name, results[j].id)
                     /\ results[i].id = results[j].id => ~IsExistenceRecord(results[j])
                [] results[i].category = "invariant" ->
                     PlaceOf(invariantsOf, LAMBDA v : v.id, results[i].id)
                       <= PlaceOf(invariantsOf, LAMBDA v : v.id, results[j].id)
                [] OTHER -> TRUE
  /\ LET verified == SelectSeq(flowgraph.edges, LAMBDA e : ~Truthy(e.comment))
         relational == SelectSeq(results, LAMBDA r : r.category = "relational")
     IN /\ Len(relational) <= Len(verified)
        /\ \A k \in DOMAIN relational :
             relational[k].id = verified[k].from \o <<" ", "-", "[">> \o verified[k].rel \o <<"]", "-", ">", " ">> \o verified[k].to
  /\ \A i \in DOMAIN results :
       (results[i].category = "flow" /\ ~IsExistenceRecord(results[i])) =>
         \E h \in 1..(i - 1) :
           results[h].category = "flow" /\ results[h].id = results[i].id
             /\ IsExistenceRecord(results[h])

----------------------------------------------------------------------------
(* The window around a declared line *)

\* C24: the line window is symmetric: for a type or method node declared at
\* line L (radius 5) and an endpoint node at line L (radius 10), evidence on
\* any line from L - radius to L + radius inclusive, clipped to the file,
\* gives PASS, and evidence only outside that range gives WARN.
C24_SymmetricWindow ==
  StructuralOver =>
    \A k \in DOMAIN flowgraph.nodes :
      LET id == flowgraph.nodes[k].id
          node == flowgraph.nodes[k].node
      IN (/\ node.kind \in {<<"t", "y", "p", "e">>, <<"m", "e", "t", "h", "o", "d">>, <<"e", "n", "d", "p", "o", "i", "n", "t">>}
          /\ IsSome(node.loc)
          /\ IsSome(resolveLoc(Get(node.loc), rootOf).line)
          /\ Get(resolveLoc(Get(node.loc), rootOf).line) >= 1
          /\ IsSome(SourceOfNode(id))
          /\ EvidenceIn(id, node.kind, Get(SourceOfNode(id)))
          /\ Len(StructuralOf(id)) >= 1) =>
           StructuralOf(id)[1].status =
             (IF EvidenceIn(id, node.kind,
                            LinesAround(Get(SourceOfNode(id)),
                                        Get(resolveLoc(Get(node.loc), rootOf).line),
                                        RadiusOf(node.kind)))
              THEN "PASS" ELSE "WARN")

----------------------------------------------------------------------------
(* resolveLoc *)

\* the position of the last colon of loc, 0 if it has none
LastColon(loc) ==
  IF \E k \in DOMAIN loc : loc[k] = ":"
  THEN CHOOSE k \in DOMAIN loc : loc[k] = ":" /\ \A j \in (k + 1)..Len(loc) : loc[j] # ":"
  ELSE 0

\* the final colon-delimited segment, and what is left of it
FinalSegment(loc) == SubSeq(loc, LastColon(loc) + 1, Len(loc))
Remainder(loc) == SubSeq(loc, 1, LastColon(loc) - 1)

IsNumeral(s) == Len(s) > 0 /\ \A k \in DOMAIN s : s[k] \in {"0", "1", "2", "3", "4", "5", "6", "7", "8", "9"}

\* the locations of the nodes of the document
LocsOfDocument ==
  {Get(flowgraph.nodes[k].node.loc) : k \in {j \in DOMAIN flowgraph.nodes : IsSome(flowgraph.nodes[j].node.loc)}}

\* resolveLoc gives this path (resolved against the root) and this line
Resolves(loc, path, line) ==
  resolveLoc(loc, rootOf) = [filePath |-> ResolvePath(rootOf, path), line |-> line]

\* the record of a node of a custom kind tells whether the file at `path` holds text
RecordFollows(path) ==
  \A k \in DOMAIN flowgraph.nodes :
    (flowgraph.nodes[k].node.kind \notin BuiltInKinds /\ Len(StructuralOf(flowgraph.nodes[k].id)) = 1) =>
      (StructuralOf(flowgraph.nodes[k].id)[1].status = "PASS"
         <=> Truthy(readSource(ResolvePath(rootOf, path))))

\* p:n resolves to exactly p and n, also when p holds colons
RoundTrip(loc) ==
  \A n \in 0..MaxLine :
    (LastColon(loc) > 0 /\ FinalSegment(loc) = NumToStr(n)) => Resolves(loc, Remainder(loc), Some(n))

\* C25 (as stated): a purely numeric final colon-delimited segment is the
\* line and the remaining segments are the path, for every location string;
\* otherwise there is no line and the whole string is the path.
C25_FinalNumericSegment ==
  \A loc \in LocsOfDocument :
    /\ IF IsNumeral(FinalSegment(loc))
       THEN Resolves(loc, Remainder(loc), Some(ParseInt(FinalSegment(loc))))
       ELSE Resolves(loc, loc, None)
    /\ RoundTrip(loc)

\* C25 (amended): a purely numeric final segment is the line, and the
\* segments before it the path, if the location has more than one segment; a
\* location without a colon is the path whole, numeric or not; p:n gives back
\* exactly p and n; the file looked up is the one at that path.
C25_TrailingNumericSegment ==
  \A loc \in LocsOfDocument :
    /\ IF LastColon(loc) > 0 /\ IsNumeral(FinalSegment(loc))
       THEN /\ Resolves(loc, Remainder(loc), Some(ParseInt(FinalSegment(loc))))
            /\ (StructuralOver /\ Cardinality(LocsOfDocument) = 1) => RecordFollows(Remainder(loc))
       ELSE /\ Resolves(loc, loc, None)
            /\ (StructuralOver /\ Cardinality(LocsOfDocument) = 1) => RecordFollows(loc)
    /\ RoundTrip(loc)

\* a path that holds a colon, before a line number, and the file at that path
\* was found
C25_Witness ==
  /\ StructuralOver
  /\ \E loc \in LocsOfDocument :
       /\ LastColon(Remainder(loc)) > 0
       /\ IsNumeral(FinalSegment(loc))
       /\ RecordFollows(Remainder(loc))
  /\ \E k \in DOMAIN results : results[k].status = "PASS"

----------------------------------------------------------------------------
(* The optional fields of a type node *)

\* C26: for a type node whose declaration is found in the file (existence
\* PASS or WARN), the number of additional FAIL records is the number of
\* `values` literals absent from the file, plus one if a declared `schema`
\* token is absent; when the file or the declaration is not found exactly one
\* FAIL is recorded and no optional-field check runs.
C26_TypeOptionalFails ==
  StructuralOver =>
    \A k \in DOMAIN flowgraph.nodes :
      LET id == flowgraph.nodes[k].id
          node == flowgraph.nodes[k].node
          rs == StructuralOf(id)
      IN (node.kind = <<"t", "y", "p", "e">> /\ Len(rs) >= 1) =>
           LET source == SourceOfNode(id)
               found == Truthy(source) /\ EvidenceIn(id, <<"t", "y", "p", "e">>, Get(source))
               values == IF IsSome(node.values) THEN Get(node.values) ELSE <<>>
               absent == Cardinality(MissingValues(values, Get(source)))
                         + (IF Truthy(node.schema) /\ ~Includes(Get(source), Get(node.schema))
                            THEN 1 ELSE 0)
           IN IF found
              THEN /\ rs[1].status \in {"PASS", "WARN"}
                   /\ Len(rs) = 1 + absent
                   /\ \A m \in 2..Len(rs) : rs[m].status = "FAIL"
              ELSE /\ Len(rs) = 1
                   /\ rs[1].status = "FAIL"

\* a type found away from its line, with a value and the schema both absent
C26_Witness ==
  /\ StructuralOver
  /\ \E k \in DOMAIN flowgraph.nodes :
       LET rs == StructuralOf(flowgraph.nodes[k].id)
       IN /\ flowgraph.nodes[k].node.kind = <<"t", "y", "p", "e">>
          /\ Len(rs) = 3
          /\ rs[1].status = "WARN"
          /\ rs[2].message.tpl = SchemaTemplate
          /\ rs[3].message.tpl = ValueTemplate

----------------------------------------------------------------------------
(* Direct jumps *)

\* the steps of a step list whose `then` is a direct jump to a node id
JumpSteps(steps) ==
  {k \in DOMAIN steps : ~IsBranch(steps[k].then) /\ ~IsTerminalWord(steps[k].then.s)}

\* C27: a direct jump is checked like a branch target: a jump target absent
\* from the node table makes the existence check of the flow FAIL, and a jump
\* target that is not a step of the same flow produces a reachability WARN.
C27_JumpsChecked ==
  \A i \in DOMAIN flowsOf :
    FlowVerified(i) =>
      \A k \in JumpSteps(Get(flowsOf[i].steps)) :
        LET steps == Get(flowsOf[i].steps)
            target == steps[k].then.s
        IN /\ ~HasNode(flowgraph.nodes, target) =>
                ExistenceRecords(flowsOf[i].name)[1].status = "FAIL"
           /\ (\A m \in DOMAIN steps : steps[m].node # target) =>
                \E r \in DOMAIN ReachabilityRecords(flowsOf[i].name) :
                  ReachabilityRecords(flowsOf[i].name)[r].status = "WARN"

----------------------------------------------------------------------------
(* The result list and the document during a run *)

\* C28: during a run each step only adds records at the end of the result
\* list: no record already in it is removed, reordered or modified; and every
\* record has a status among PASS, FAIL, WARN and a category among
\* structural, relational, flow, invariant.
C28_AppendOnly ==
  [][/\ (previous' = previous) =>
          /\ Len(results') >= Len(results)
          /\ SubSeq(results', 1, Len(results)) = results
     /\ \A k \in DOMAIN results' :
          /\ results'[k].status \in {"PASS", "FAIL", "WARN"}
          /\ results'[k].category \in {"structural", "relational", "flow", "invariant"}]_vars

\* a finished run whose list holds all three statuses
C28_Witness ==
  /\ pc = "exited"
  /\ \A s \in {"PASS", "FAIL", "WARN"} : \E k \in DOMAIN results : results[k].status = s

\* C29: neither a verification run nor an impact query changes the loaded
\* document: nodes, edges, flows and invariants stay as they were loaded.
C29_DocumentUnchanged ==
  [][/\ flowgraph'.nodes = flowgraph.nodes
     /\ flowgraph'.edges = flowgraph.edges
     /\ flowgraph'.flows = flowgraph.flows
     /\ flowgraph'.invariants = flowgraph.invariants]_vars

\* an impact query has run to its end over a document with an edge that
\* carries a `_comment`, which the query leaves out of its report
C29_Witness ==
  /\ pc = "impactExited"
  /\ report.found = Some(TRUE)
  /\ \E k \in DOMAIN flowgraph.edges : Truthy(flowgraph.edges[k].comment)

----------------------------------------------------------------------------
(* What the record of an edge depends on *)

\* the content of the file at a path in a source tree, if there is one
ContentAt(tree, path) == IF path \in DOMAIN tree THEN tree[path] ELSE None

\* the path of the file of a node of the document
PathOfNode(id) == resolveLoc(Get(NodeAt(flowgraph.nodes, id).loc), rootOf).filePath

\* the relational records of the earlier run
RelationalBefore == SelectSeq(Get(previous).results, LAMBDA r : r.category = "relational")

\* C30: the record of an edge depends only on the edge, the node table and
\* the content of the file of its `from` node: two runs on the same document
\* whose source trees agree on that file give the same relational record for
\* the edge, whatever became of the file of the `to` node and of the
\* structural results of the two nodes.
C30_EdgeRecordIndependence ==
  (IsSome(previous) /\ RelationalOver) =>
    \A k \in DOMAIN VerifiedEdges :
      (/\ k <= Len(RelationalRecords) /\ k <= Len(RelationalBefore)
       /\ HasNode(flowgraph.nodes, VerifiedEdges[k].from) =>
            ContentAt(files, PathOfNode(VerifiedEdges[k].from))
              = ContentAt(Get(previous).files, PathOfNode(VerifiedEdges[k].from)))
        => RelationalRecords[k] = RelationalBefore[k]

\* two runs between which the file of the `to` node of an accepted edge was
\* removed: the structural result of that node changed, the file of the
\* `from` node did not
C30_Witness ==
  /\ IsSome(previous) /\ RelationalOver
  /\ \E k \in DOMAIN VerifiedEdges :
       LET e == VerifiedEdges[k]
       IN /\ k <= Len(RelationalRecords)
          /\ RelationalRecords[k].status = "PASS"
          /\ HasNode(flowgraph.nodes, e.from) /\ HasNode(flowgraph.nodes, e.to)
          /\ PathOfNode(e.from) # PathOfNode(e.to)
          /\ ContentAt(files, PathOfNode(e.to)) = None
          /\ ContentAt(Get(previous).files, PathOfNode(e.to)) # None
          /\ \E i \in DOMAIN results, j \in DOMAIN Get(previous).results :
               /\ results[i].category = "structural" /\ results[i].id = e.to
               /\ Get(previous).results[j].category = "structural"
               /\ Get(previous).results[j].id = e.to
               /\ results[i].status = "FAIL"
               /\ Get(previous).results[j].status = "PASS"

====
